---- MODULE Spec2Model ----
(***************************************************************************)
(* A model of yarex: the storage-aware prefetcher (core/reader/files.rs),  *)
(* the bundle registry (stingray/src/bundle.rs) and the incremental index  *)
(* cache (core/reader/mod.rs).                                             *)
(***************************************************************************)
EXTENDS Integers, Sequences, FiniteSets, Bags, TLC

\* ------------------------------------------------------------------------
\* Bounds of the model
\* ------------------------------------------------------------------------
\* largest number of bundles handed to Reader::open_bundles
MaxBundles == 2
\* largest thread count requested by the caller
MaxThreads == 2
\* runs of load_index in one behaviour
MaxRuns == 2
\* edits of the bundle directory in one behaviour
MaxEdits == 2
\* physical offsets reported by drive::file_offset: two values give ties and
\* both relative orders of any two bundles
Offsets == {0, 1}

\* ------------------------------------------------------------------------
\* Generic sequence helpers (Vec::insert, Vec::remove)
\* ------------------------------------------------------------------------
InsertAt(s, i, e) ==
    SubSeq(s, 1, i - 1) \o <<e>> \o SubSeq(s, i, Len(s))

RemoveAt(s, i) ==
    SubSeq(s, 1, i - 1) \o SubSeq(s, i + 1, Len(s))

SeqSet(s) == {s[i] : i \in 1..Len(s)}

\* ------------------------------------------------------------------------
\* Prefetcher state (struct Reader and the threads of Reader::open_bundles)
\* ------------------------------------------------------------------------
VARIABLES
    windows,      \* cfg!(windows) / target_os = "windows" of the build
    probe,        \* result of drive::in_ssd(dir): "ssd", "hdd" or "unknown"
    phys,         \* phys[b]: what drive::file_offset reports for bundle b
    nbundles,     \* bundles.len() of the vector handed to open_bundles
    num_threads,  \* requested thread count = number of consumers
    files,        \* Reader.files: the queue, a stack popped from its end
    num_files,    \* Reader.num_files (NoNum stands for u64::MAX)
    sorted, read, done, is_ssd,   \* the four atomic flags
    p1pc, p1files,                \* storage-probe producer and its local Vec
    p2pc,                         \* enumerator
    subpc, subidx, subssd,        \* enumerator sub-workers
    conspc,                       \* consumers looping on Reader::pop
    delivered,    \* bundles returned by pop, in the order of the pops
    resorted,     \* how many queue entries the probe producer re-inserted
    mainpc        \* the thread that owns the scope

readerVars == <<windows, probe, phys, nbundles, num_threads, files, num_files,
                sorted, read, done, is_ssd, p1pc, p1files, p2pc, subpc, subidx,
                subssd, conspc, delivered, resorted, mainpc>>

\* ------------------------------------------------------------------------
\* One Bundle of the registry (struct Bundle), driven through its own API
\* ------------------------------------------------------------------------
VARIABLES
    versions,     \* Bundle.versions: Vec<BundleVersion>
    lastop        \* which call ran last and how its binary search ended

bundleVars == <<versions, lastop>>

\* ------------------------------------------------------------------------
\* The bundle directory, the cache file and one run of load_index
\* ------------------------------------------------------------------------
VARIABLES
    db,           \* bundle_database.data: 0 unreadable, else its content
    disk,         \* disk[name]: 0 if the file is absent, else its mtime (s)
    cache,        \* the cache file: <<>> or <<Index>> as written by a save
    index,        \* the Index load_index is building or has returned
    phase,        \* "idle" (no run), "indexing", "loaded"
    mode,         \* the branch load_index took in this run
    scanned,      \* whether this run called scan_dir_filter
    queue,        \* files still to be handed to an indexing worker
    queued,       \* directory entries for which the scan filter said true
    wpc, wver,    \* indexing workers: position and the version in hand
    runs, edits   \* runs started and directory edits made so far

loadVars == <<db, disk, cache, index, phase, mode, scanned, queue, queued,
              wpc, wver, runs, edits>>

\* The cache file and the Index handed to save_reader (core/utility.rs)
VARIABLES
    cfile,      \* the cache file: <<>> when missing, else <<its bytes>>
    cidx,       \* the Index in memory
    cprev,      \* the cache file as it was before the save_reader call just made
    cforce,     \* force_save of the save_reader call just made
    cloaded,    \* what the load_reader call just made returned: <<>> is Err
    cop         \* the last call and its outcome

cacheVars == <<cfile, cidx, cprev, cforce, cloaded, cop>>

\* Calls of format_bundle and get_bundle_hash_patch (stingray/src/utility.rs)
VARIABLES
    nin,        \* the argument of the last call: a file name or <<hash, patch>>
    nout,       \* its result; <<>> is None
    nop         \* the function called

nameVars == <<nin, nout, nop>>


\* Calls of BundleVersion::index and BundleVersion::file (stingray/src/bundle.rs)
VARIABLES
    iformat,    \* self.reader.version() of the bundle: 5 or 6
    itable,     \* the file table of the bundle, one record per index entry
    isize,      \* self.reader.size(): the uncompressed size of the header
    ifiles,     \* self.files
    idiff,      \* self.diff
    ires,       \* "ok" or "err": the Result of index
    iquery,     \* the (ext_hash, name_hash) of the last call of file
    ifound,     \* its result; <<>> is None
    iop         \* the method called last

indexVars == <<iformat, itable, isize, ifiles, idiff, ires, iquery, ifound, iop>>


\* Calls of BundleReader::read through one ReadBuffer (stingray/src/reader.rs)
VARIABLES
    rdbundle,   \* the bundle file: the stored length of each of its chunks
    rdstate,    \* the fields of the BundleReader and of the ReadBuffer
    rdrange,    \* the range of the last call
    rdres,      \* what the last call returned
    rdio,       \* the calls of fd.seek and fd.read the last call made
    rdsplit,    \* the last range read byte by byte from the same state
    rdfault,    \* what is wrong with the last chunk of the file, or "none"
    rdop        \* "read" after a call, "outside" after one behind the bundle

streamVars ==
    <<rdbundle, rdstate, rdrange, rdres, rdio, rdsplit, rdfault, rdop>>

\* Index::index_files_mt and Index::extract_files_mt
VARIABLES
    xprobe,     \* drive::in_ssd(dir) of the bundle directory: "ssd", "hdd", "unknown"
    xssd,       \* Index::is_ssd
    xthreads,   \* num_threads as passed by the caller
    xworkers,   \* num_threads after extract_files_mt decided on it
    xqueue,     \* bundles the prefetcher still holds
    xbad,       \* queued bundles on which BundleVersion::index returns Err
    xalive,     \* worker threads that have not panicked
    xbundles,   \* Index::bundles, the hashes of the bundles inserted
    xerr,       \* bundles whose error was printed
    xkeys,      \* Index::key_map, the hashes it has a string for
    xfallback,  \* hash_fallback
    xfile,      \* the matched file the worker is at
    xout,       \* what the worker did with it
    xpc
extractVars == <<xprobe, xssd, xthreads, xworkers, xqueue, xbad, xalive, xbundles,
                 xerr, xkeys, xfallback, xfile, xout, xpc>>

\* BundleVersion::read_file
VARIABLES
    fformat,    \* the format of the bundle
    fphys,      \* the files as they lie in the uncompressed stream
    fcorrupt,   \* the file whose header carries another name hash, or 0
    fchecked,   \* the build checks integer overflow (debug) or wraps (release)
    fslack,     \* the last chunk has room behind the end of the stream
    fusize,     \* BundleReader::size, the uncompressed size
    ffiles,     \* BundleVersion::files
    fdiff,      \* BundleVersion::diff
    fprev,      \* files before the last call of read_file
    fquery,     \* (ext_hash, file_hash) of the last call
    fres,       \* its result
    freads,     \* calls so far
    flast,      \* the call before the last: its query, its result, whether it resolved
    freloaded,  \* the version went through the index file since it was opened
    fop
fileVars == <<fformat, fphys, fcorrupt, fchecked, fslack, fusize, ffiles, fdiff, fprev, fquery,
              fres, freads, flast, freloaded, fop>>


\* load_index on one of several bundle directories
VARIABLES
    ddb,        \* hash_bundle_database of each directory
    dfiles,     \* the bundles each directory holds
    dcache,     \* the Index in the index file, <<>> if there is none
    dasked,     \* the dir argument of the last load_index
    dindex,     \* the Index it returned
    dop
dirVars == <<ddb, dfiles, dcache, dasked, dindex, dop>>


\* index_files_with_progress, extract_files_with_progress and load_bar
VARIABLES
    prun,       \* "index" or "extract"
    pleft,      \* the bundles Reader::pop has not returned yet
    pchan,      \* the events in the channel
    prx,        \* the receiver is alive
    pcount,     \* the AtomicU32 count
    pwork,      \* each worker: where it is, its bundle and the count it took
    pmain,      \* where the calling thread is
    pbar,       \* load_bar: total_read, total_count, total_size, where it is
    psent       \* what the workers have sent: bundles, bytes, largest count
progVars == <<prun, pleft, pchan, prx, pcount, pwork, pmain, pbar, psent>>


\* extract_files_mt: the matched versions and the descriptors of the scan
VARIABLES
    gdir,       \* the bundle files of the directory
    ggroups,    \* bundles: the (hash, patch) whose files wait for extraction
    gqueue,     \* the descriptors Reader::pop has not returned yet
    gtaken,     \* how many descriptors pop has returned
    gpc
groupVars == <<gdir, ggroups, gqueue, gtaken, gpc>>

vars == <<readerVars, bundleVars, loadVars, cacheVars, nameVars, indexVars, streamVars, extractVars, fileVars, dirVars, progVars, groupVars>>

\* the variables an action of one part of the program leaves alone
notReaderVars == <<bundleVars, loadVars, cacheVars, nameVars, indexVars, streamVars, extractVars, fileVars, dirVars, progVars, groupVars>>
notBundleVars == <<readerVars, loadVars, cacheVars, nameVars, indexVars, streamVars, extractVars, fileVars, dirVars, progVars, groupVars>>
notLoadVars == <<readerVars, bundleVars, cacheVars, nameVars, indexVars, streamVars, extractVars, fileVars, dirVars, progVars, groupVars>>
notCacheVars == <<readerVars, bundleVars, loadVars, nameVars, indexVars, streamVars, extractVars, fileVars, dirVars, progVars, groupVars>>
notIndexVars == <<readerVars, bundleVars, loadVars, cacheVars, nameVars, streamVars, extractVars, fileVars, dirVars, progVars, groupVars>>
notStreamVars == <<readerVars, bundleVars, loadVars, cacheVars, nameVars, indexVars, extractVars, fileVars, dirVars, progVars, groupVars>>
notExtractVars == <<readerVars, bundleVars, loadVars, cacheVars, nameVars, indexVars, streamVars, fileVars, dirVars, progVars, groupVars>>
notFileVars == <<readerVars, bundleVars, loadVars, cacheVars, nameVars, indexVars, streamVars, extractVars, dirVars, progVars, groupVars>>
notDirVars == <<readerVars, bundleVars, loadVars, cacheVars, nameVars, indexVars, streamVars, extractVars, fileVars, progVars, groupVars>>
notProgVars == <<readerVars, bundleVars, loadVars, cacheVars, nameVars, indexVars, streamVars, extractVars, fileVars, dirVars, groupVars>>
notGroupVars == <<readerVars, bundleVars, loadVars, cacheVars, nameVars, indexVars, streamVars, extractVars, fileVars, dirVars, progVars>>
notNameVars == <<readerVars, bundleVars, loadVars, cacheVars, indexVars, streamVars, extractVars, fileVars, dirVars, progVars, groupVars>>

\* extract_files_mt is not called on an indexed directory
GroupIdle ==
    gdir = {} /\ ggroups = {} /\ gqueue = <<>> /\ gtaken = 0 /\ gpc = "off"

\* no progress bar runs
ProgIdle ==
    /\ prun = "none" /\ pleft = 0 /\ pchan = <<>> /\ prx = FALSE /\ pcount = 0
    /\ pwork = <<>> /\ pmain = "off" /\ pbar = <<>> /\ psent = <<>>

\* load_index is not called on a choice of directories
DirIdle ==
    /\ ddb = <<>> /\ dfiles = <<>> /\ dcache = <<>> /\ dasked = "none"
    /\ dindex = <<>> /\ dop = "off"

\* BundleVersion::read_file is not called
FileIdle ==
    /\ fformat = 0 /\ fphys = <<>> /\ fcorrupt = 0 /\ fchecked = FALSE
    /\ fslack = FALSE /\ fusize = 0
    /\ ffiles = <<>> /\ fdiff = 0 /\ fprev = <<>> /\ fquery = <<>> /\ fres = <<>>
    /\ freads = 0 /\ flast = <<>> /\ freloaded = FALSE /\ fop = "off"

\* index_files_mt and extract_files_mt are not called
ExtractIdle ==
    /\ xprobe = "unknown" /\ xssd = FALSE /\ xthreads = 0 /\ xworkers = 0
    /\ xqueue = {} /\ xbad = {} /\ xalive = {} /\ xbundles = {} /\ xerr = {}
    /\ xkeys = {} /\ xfallback = FALSE /\ xfile = <<>> /\ xout = <<>> /\ xpc = "off"

\* BundleReader::read is not called
StreamIdle ==
    /\ rdbundle = <<>> /\ rdstate = <<>> /\ rdrange = <<>> /\ rdres = <<>>
    /\ rdio = 0 /\ rdsplit = <<>> /\ rdfault = "none" /\ rdop = "off"

\* BundleVersion::index is not called
IndexIdle ==
    /\ iformat = 0 /\ itable = <<>> /\ isize = 0 /\ ifiles = <<>> /\ idiff = 0
    /\ ires = "off" /\ iquery = <<>> /\ ifound = <<>> /\ iop = "off"

\* format_bundle and get_bundle_hash_patch are not called
NameIdle == nin = <<>> /\ nout = <<>> /\ nop = "off"

\* save_reader and load_reader are not called
CacheIdle ==
    /\ cfile = <<>> /\ cidx = <<>> /\ cprev = <<>> /\ cforce = FALSE
    /\ cloaded = <<>> /\ cop = "off"

\* load_index is not called: no directory, no cache, no Index
LoadIdle ==
    /\ db = 0 /\ disk = <<>> /\ cache = <<>> /\ index = <<>> /\ phase = "off"
    /\ mode = "none" /\ scanned = FALSE /\ queue = <<>> /\ queued = {}
    /\ wpc = <<>> /\ wver = <<>> /\ runs = 0 /\ edits = 0

\* a Bundle no call has touched
BundleIdle == versions = <<>> /\ lastop = "none"

\* Option<u64>::None of a queue entry's offset; None sorts below every Some
NoOffset == -1
\* u64::MAX, the value of num_files before the enumerator stores the count
NoNum == -1

Threads == 1..MaxThreads
BundleIds == 1..MaxBundles

\* variant of sort_offset: a.cmp(b), ascending
sort_offset_asc(a, b) ==
    IF a < b THEN "Less" ELSE IF a = b THEN "Equal" ELSE "Greater"

\* fn sort_offset(a, b) = (*b).cmp(a): "Less" | "Equal" | "Greater"
sort_offset(a, b) ==
    IF b < a THEN "Less" ELSE IF b = a THEN "Equal" ELSE "Greater"

\* The indices slice::binary_search_by(|probe| sort_offset(probe, off)) may
\* hand to Vec::insert: any index holding an equal offset (Ok(i), which match
\* is unspecified), else the one insertion point (Err(i)).
SearchInsertPoints(q, off) ==
    LET eq == {i \in 1..Len(q) : sort_offset(q[i].off, off) = "Equal"}
    IN  IF eq # {} THEN eq
        ELSE {i \in 1..Len(q) + 1 :
                 /\ \A j \in 1..(i - 1) : sort_offset(q[j].off, off) = "Less"
                 /\ \A j \in i..Len(q) : sort_offset(q[j].off, off) = "Greater"}

\* files.sort_by(sort_offset): a stable sort, descending by offset
RECURSIVE SortByOffset(_)
SortByOffset(s) ==
    IF s = <<>> THEN <<>>
    ELSE LET rest == SortByOffset(SubSeq(s, 1, Len(s) - 1))
             e == s[Len(s)]
             \* stable: after every element that does not sort after e
             k == Cardinality({i \in 1..Len(rest) :
                                 sort_offset(rest[i].off, e.off) # "Greater"})
         IN  InsertAt(rest, k + 1, e)

\* for (fd, offset, ..) in &mut files { *offset = drive::file_offset(fd) }
WithOffsets(s) == [i \in 1..Len(s) |-> [id |-> s[i].id, off |-> phys[s[i].id]]]

\* number of sub-workers: min(num_threads, bundles.len())
NumSubs == IF nbundles > num_threads THEN num_threads ELSE nbundles
\* let thread_size = bundles.len() / num_threads
ThreadSize == nbundles \div NumSubs
\* first and one-past-last bundle (1-based) of sub-worker w's slice
SliceStart(w) == (w - 1) * ThreadSize + 1
SliceEnd(w) == IF w = NumSubs THEN nbundles + 1 ELSE w * ThreadSize + 1

Subs == 1..NumSubs
Consumers == 1..num_threads

\* ------------------------------------------------------------------------
\* Reader::new(is_ssd) followed by Reader::open_bundles and the consumers
\* ------------------------------------------------------------------------
ReaderInit ==
    /\ windows \in BOOLEAN
    /\ probe \in (IF windows THEN {"ssd", "hdd", "unknown"} ELSE {"unknown"})
    /\ nbundles \in 1..MaxBundles
    /\ num_threads \in 1..MaxThreads
    /\ phys \in [BundleIds -> (IF windows THEN Offsets ELSE {NoOffset})]
    /\ \A b \in BundleIds : b > nbundles => phys[b] = (IF windows THEN 0 ELSE NoOffset)
    /\ is_ssd \in BOOLEAN
    /\ files = <<>>
    /\ num_files = NoNum
    /\ sorted = FALSE
    /\ read = FALSE
    /\ done = FALSE
    /\ p1pc = "probe"
    /\ p1files = <<>>
    /\ p2pc = "start"
    /\ subpc = [w \in Threads |-> "idle"]
    /\ subidx = [w \in Threads |-> 0]
    /\ subssd = [w \in Threads |-> FALSE]
    /\ conspc = [c \in Threads |-> IF c <= num_threads THEN "load" ELSE "unused"]
    /\ delivered = <<>>
    /\ resorted = 0
    /\ mainpc = "size"

\* ---- storage-probe producer (first scope.spawn of open_bundles) ----------

\* if let Some(is_ssd) = drive::in_ssd(dir) { if !is_ssd && cfg!(windows) ...
P1Probe ==
    /\ p1pc = "probe"
    /\ p1pc' = IF probe = "unknown" THEN "sorted"
               ELSE IF probe = "hdd" /\ windows THEN "take" ELSE "store"
    /\ UNCHANGED <<notReaderVars, windows, probe, phys, nbundles, num_threads, files, num_files,
                   sorted, read, done, is_ssd, p1files, p2pc, subpc, subidx,
                   subssd, conspc, delivered, resorted, mainpc>>

\* let mut files = { std::mem::take(&mut *self.files.lock()) }
P1Take ==
    /\ p1pc = "take"
    /\ p1files' = files
    /\ files' = <<>>
    /\ p1pc' = "reinsert"
    /\ UNCHANGED <<notReaderVars, windows, probe, phys, nbundles, num_threads, num_files,
                   sorted, read, done, is_ssd, p2pc, subpc, subidx,
                   subssd, conspc, delivered, resorted, mainpc>>

\* variant of InsertAll: an entry whose offset is already queued (Ok(i)) is
\* dropped instead of inserted
RECURSIVE InsertAllDedup(_, _)
InsertAllDedup(q, s) ==
    IF s = <<>> THEN {q}
    ELSE IF \E i \in 1..Len(q) : q[i].off = Head(s).off
         THEN InsertAllDedup(q, Tail(s))
         ELSE UNION {InsertAllDedup(InsertAt(q, i, Head(s)), Tail(s)) :
                        i \in SearchInsertPoints(q, Head(s).off)}

\* for file in files { files2.insert(binary_search(file.1), file) }: every
\* queue the loop can produce from q by inserting the entries of s in order
RECURSIVE InsertAll(_, _)
InsertAll(q, s) ==
    IF s = <<>> THEN {q}
    ELSE UNION {InsertAll(InsertAt(q, i, Head(s)), Tail(s)) :
                   i \in SearchInsertPoints(q, Head(s).off)}

\* offsets recomputed, local Vec sorted, then re-inserted under the lock
P1Reinsert ==
    /\ p1pc = "reinsert"
    /\ \E q \in InsertAll(files, SortByOffset(WithOffsets(p1files))) : files' = q
    /\ resorted' = resorted + Len(p1files)
    /\ p1files' = <<>>
    /\ p1pc' = "store"
    /\ UNCHANGED <<notReaderVars, windows, probe, phys, nbundles, num_threads, num_files,
                   sorted, read, done, is_ssd, p2pc, subpc, subidx,
                   subssd, conspc, delivered, mainpc>>

\* self.is_ssd.store(is_ssd)
P1Store ==
    /\ p1pc = "store"
    /\ is_ssd' = (probe = "ssd")
    /\ p1pc' = "sorted"
    /\ UNCHANGED <<notReaderVars, windows, probe, phys, nbundles, num_threads, files, num_files,
                   sorted, read, done, p1files, p2pc, subpc, subidx,
                   subssd, conspc, delivered, resorted, mainpc>>

\* self.sorted.store(true)
P1Sorted ==
    /\ p1pc = "sorted"
    /\ sorted' = TRUE
    /\ p1pc' = "check"
    /\ UNCHANGED <<notReaderVars, windows, probe, phys, nbundles, num_threads, files, num_files,
                   read, done, is_ssd, p1files, p2pc, subpc, subidx,
                   subssd, conspc, delivered, resorted, mainpc>>

\* variant of P1DoneAfter: the probe producer never stores done
P1DoneNever(r, d) == d

\* what the probe producer stores into done after loading read
P1DoneAfter(r, d) == IF r THEN TRUE ELSE d

\* if self.read.load() { self.done.store(true) }
P1Check ==
    /\ p1pc = "check"
    /\ done' = P1DoneAfter(read, done)
    /\ p1pc' = "end"
    /\ UNCHANGED <<notReaderVars, windows, probe, phys, nbundles, num_threads, files, num_files,
                   sorted, read, is_ssd, p1files, p2pc, subpc, subidx,
                   subssd, conspc, delivered, resorted, mainpc>>

\* ---- enumerator (second scope.spawn) and its sub-workers ----------------

\* variant of P2Start: the sub-workers are spawned and the count is not
\* published
P2StartUnpublished ==
    /\ p2pc = "start"
    /\ subpc' = [w \in Threads |-> IF w \in Subs
                                   THEN (IF windows THEN "load" ELSE "push")
                                   ELSE "unused"]
    /\ subidx' = [w \in Threads |-> IF w \in Subs THEN SliceStart(w) ELSE 0]
    /\ p2pc' = "join"
    /\ UNCHANGED <<notReaderVars, windows, probe, phys, nbundles, num_threads, files,
                   num_files, sorted, read, done, is_ssd, p1pc, p1files,
                   subssd, conspc, delivered, resorted, mainpc>>

\* *self.num_files.lock() = bundles.len(); spawn the sub-workers
P2Start ==
    /\ p2pc = "start"
    /\ num_files' = nbundles
    /\ subpc' = [w \in Threads |-> IF w \in Subs
                                   THEN (IF windows THEN "load" ELSE "push")
                                   ELSE "unused"]
    /\ subidx' = [w \in Threads |-> IF w \in Subs THEN SliceStart(w) ELSE 0]
    /\ p2pc' = "join"
    /\ UNCHANGED <<notReaderVars, windows, probe, phys, nbundles, num_threads, files,
                   sorted, read, done, is_ssd, p1pc, p1files,
                   subssd, conspc, delivered, resorted, mainpc>>

\* #[cfg(windows)] if self.is_ssd.load() ...
SubLoad(w) ==
    /\ subpc[w] = "load"
    /\ subssd' = [subssd EXCEPT ![w] = is_ssd]
    /\ subpc' = [subpc EXCEPT ![w] = "push"]
    /\ UNCHANGED <<notReaderVars, windows, probe, phys, nbundles, num_threads, files, num_files,
                   sorted, read, done, is_ssd, p1pc, p1files, p2pc, subidx,
                   conspc, delivered, resorted, mainpc>>

\* the queues a sub-worker can leave behind when it enqueues bundle b
Enqueue(q, b, ssd) ==
    IF ~windows \/ ssd
    THEN {Append(q, [id |-> b, off |-> NoOffset])}
    ELSE {InsertAt(q, i, [id |-> b, off |-> phys[b]]) :
             i \in SearchInsertPoints(q, phys[b])}

\* lock, push or sorted insert, unlock, notify_one; then the next bundle
SubPush(w) ==
    /\ subpc[w] = "push"
    /\ \E q \in Enqueue(files, subidx[w], subssd[w]) : files' = q
    /\ subidx' = [subidx EXCEPT ![w] = @ + 1]
    /\ subpc' = [subpc EXCEPT ![w] =
                    IF subidx[w] + 1 = SliceEnd(w) THEN "done"
                    ELSE IF windows THEN "load" ELSE "push"]
    /\ UNCHANGED <<notReaderVars, windows, probe, phys, nbundles, num_threads, num_files,
                   sorted, read, done, is_ssd, p1pc, p1files, p2pc,
                   subssd, conspc, delivered, resorted, mainpc>>

\* crossbeam scope(...).unwrap(): every sub-worker has finished
P2Join ==
    /\ p2pc = "join"
    /\ \A w \in Subs : subpc[w] = "done"
    /\ p2pc' = "read"
    /\ UNCHANGED <<notReaderVars, windows, probe, phys, nbundles, num_threads, files, num_files,
                   sorted, read, done, is_ssd, p1pc, p1files, subpc, subidx,
                   subssd, conspc, delivered, resorted, mainpc>>

\* self.read.store(true)
P2Read ==
    /\ p2pc = "read"
    /\ read' = TRUE
    /\ p2pc' = "check"
    /\ UNCHANGED <<notReaderVars, windows, probe, phys, nbundles, num_threads, files, num_files,
                   sorted, done, is_ssd, p1pc, p1files, subpc, subidx,
                   subssd, conspc, delivered, resorted, mainpc>>

\* variant of P2DoneAfter: the enumerator stores done without loading sorted
P2DoneAlways(s, d) == TRUE

\* what the enumerator stores into done after loading sorted
P2DoneAfter(s, d) == IF s THEN TRUE ELSE d

\* if self.sorted.load() { self.done.store(true) }; self.ready.notify_all()
P2Check ==
    /\ p2pc = "check"
    /\ done' = P2DoneAfter(sorted, done)
    /\ p2pc' = "end"
    /\ UNCHANGED <<notReaderVars, windows, probe, phys, nbundles, num_threads, files, num_files,
                   sorted, read, is_ssd, p1pc, p1files, subpc, subidx,
                   subssd, conspc, delivered, resorted, mainpc>>

\* ---- consumers: while let Some(..) = reader.pop() ----------------------

\* if self.done.load() ... else ...
ConsLoad(c) ==
    /\ conspc[c] = "load"
    /\ conspc' = [conspc EXCEPT ![c] = IF done THEN "popdone" ELSE "wait"]
    /\ UNCHANGED <<notReaderVars, windows, probe, phys, nbundles, num_threads, files, num_files,
                   sorted, read, done, is_ssd, p1pc, p1files, p2pc, subpc,
                   subidx, subssd, delivered, resorted, mainpc>>

\* Vec::pop: the queue without its last entry
PopRest(q) == SubSeq(q, 1, Len(q) - 1)

\* done branch: break files.pop(); None ends the consumer's loop
ConsPopDone(c) ==
    /\ conspc[c] = "popdone"
    /\ IF files = <<>>
       THEN /\ conspc' = [conspc EXCEPT ![c] = "exit"]
            /\ UNCHANGED <<files, delivered>>
       ELSE /\ delivered' = Append(delivered, files[Len(files)].id)
            /\ files' = PopRest(files)
            /\ conspc' = [conspc EXCEPT ![c] = "load"]
    /\ UNCHANGED <<notReaderVars, windows, probe, phys, nbundles, num_threads, num_files,
                   sorted, read, done, is_ssd, p1pc, p1files, p2pc, subpc,
                   subidx, subssd, resorted, mainpc>>

\* wait_timeout branch: an empty queue loops, otherwise break files.pop()
ConsWait(c) ==
    /\ conspc[c] = "wait"
    /\ IF files = <<>>
       THEN UNCHANGED <<files, delivered>>
       ELSE /\ delivered' = Append(delivered, files[Len(files)].id)
            /\ files' = PopRest(files)
    /\ conspc' = [conspc EXCEPT ![c] = "load"]
    /\ UNCHANGED <<notReaderVars, windows, probe, phys, nbundles, num_threads, num_files,
                   sorted, read, done, is_ssd, p1pc, p1files, p2pc, subpc,
                   subidx, subssd, resorted, mainpc>>

\* ---- the thread that owns the scope (index_files_mt / extract_files_mt) --

\* send(IndexEvent::Size(reader.num_files())): waits while num_files is MAX
MainSize ==
    /\ mainpc = "size"
    /\ num_files # NoNum
    /\ mainpc' = "join"
    /\ UNCHANGED <<notReaderVars, windows, probe, phys, nbundles, num_threads, files, num_files,
                   sorted, read, done, is_ssd, p1pc, p1files, p2pc, subpc,
                   subidx, subssd, conspc, delivered, resorted>>

\* thread.join() of every consumer, then the scope joins both producers
MainJoin ==
    /\ mainpc = "join"
    /\ \A c \in Consumers : conspc[c] = "exit"
    /\ p1pc = "end"
    /\ p2pc = "end"
    /\ mainpc' = "returned"
    /\ UNCHANGED <<notReaderVars, windows, probe, phys, nbundles, num_threads, files, num_files,
                   sorted, read, done, is_ssd, p1pc, p1files, p2pc, subpc,
                   subidx, subssd, conspc, delivered, resorted>>

P1Step == P1Probe \/ P1Take \/ P1Reinsert \/ P1Store \/ P1Sorted \/ P1Check
P2Step == P2Start \/ P2Join \/ P2Read \/ P2Check
SubStep(w) == SubLoad(w) \/ SubPush(w)
ConsStep(c) == ConsLoad(c) \/ ConsPopDone(c) \/ ConsWait(c)
MainStep == MainSize \/ MainJoin

ReaderNext ==
    \/ P1Step
    \/ P2Step
    \/ \E w \in Threads : SubStep(w)
    \/ \E c \in Threads : ConsStep(c)
    \/ MainStep

Init == ReaderInit /\ BundleIdle /\ LoadIdle /\ CacheIdle /\ NameIdle /\ IndexIdle /\ StreamIdle /\ ExtractIdle /\ FileIdle /\ DirIdle /\ ProgIdle /\ GroupIdle
Next == ReaderNext
Spec == Init /\ [][Next]_vars

\* ------------------------------------------------------------------------
\* Prefetcher claims
\* ------------------------------------------------------------------------
\* how often bundle b occurs in a queue of entries / a sequence of ids
Occ(q, b) == Cardinality({i \in 1..Len(q) : q[i].id = b})
OccId(s, b) == Cardinality({i \in 1..Len(s) : s[i] = b})
\* 1 while bundle b still waits in its sub-worker's slice, else 0
Pending(b) ==
    IF p2pc = "start" THEN 1
    ELSE Cardinality({w \in Subs : SliceStart(w) <= b /\ subidx[w] <= b
                                    /\ b < SliceEnd(w)})
AllExited == \A c \in Consumers : conspc[c] = "exit"

\* C1: every bundle handed to open_bundles is at every moment in exactly one
\* place (still to be enqueued, in the queue, in the probe producer's local
\* Vec, or returned by one pop), and once every consumer got None each bundle
\* was returned by exactly one pop.
C1_ExactlyOnce ==
    /\ \A b \in 1..nbundles :
          Pending(b) + Occ(files, b) + Occ(p1files, b) + OccId(delivered, b) = 1
    /\ AllExited => \A b \in 1..nbundles : OccId(delivered, b) = 1

\* C1 witness: a run with the most bundles and consumers has ended, and the
\* probe producer had taken entries out of the queue to sort them.
C1_Witness ==
    /\ AllExited
    /\ nbundles = MaxBundles
    /\ num_threads = MaxThreads
    /\ resorted > 0
    /\ Len(delivered) = nbundles

\* C2: done implies sorted and read; sorted implies the probe producer holds
\* no queue entry any more; read implies every sub-worker enqueued its whole
\* slice; a consumer is in pop's done branch only when done is set, and a
\* consumer that got None leaves an empty queue with nothing left to enqueue
\* or re-insert.
C2_ShutdownSafe ==
    /\ done => sorted /\ read
    /\ sorted => p1files = <<>> /\ p1pc \in {"check", "end"}
    /\ read => p2pc \in {"check", "end"} /\ \A w \in Subs : subpc[w] = "done"
    /\ \A c \in Consumers :
          /\ conspc[c] = "popdone" => done
          /\ conspc[c] = "exit" =>
                /\ done
                /\ files = <<>>
                /\ p1files = <<>>
                /\ \A b \in 1..nbundles : Pending(b) = 0

\* C2 witness: a consumer got None in a run where the probe producer had
\* taken entries out of the queue.
C2_Witness ==
    /\ \E c \in Consumers : conspc[c] = "exit"
    /\ resorted > 0

\* Scheduling: every thread of the scope is an OS thread that keeps running,
\* and the cond-var wait has a timeout, so each thread's next step is taken.
FairSpec ==
    /\ Init
    /\ [][Next]_vars
    /\ WF_vars(P1Step)
    /\ WF_vars(P2Step)
    /\ WF_vars(MainStep)
    /\ \A w \in Threads : WF_vars(SubStep(w))
    /\ \A c \in Threads : WF_vars(ConsStep(c))

C4_AscendingDelivery ==
    (windows /\ probe = "hdd") =>
        \A i, j \in 1..Len(delivered) :
            i < j => phys[delivered[i]] <= phys[delivered[j]]

\* C4 amended: on HDD the queue is at every moment sorted by descending
\* recorded offset (entries enqueued while is_ssd was set record none and sit
\* at the pop end), every recorded offset is the file's physical offset, and
\* so the entry a pop takes, the last one, has the least recorded offset of
\* the entries queued at that moment.
C4_QueueSortedDescending ==
    (windows /\ probe = "hdd") =>
        /\ \A i, j \in 1..Len(files) : i < j => files[i].off >= files[j].off
        /\ \A i \in 1..Len(files) : files[i].off \in {NoOffset, phys[files[i].id]}

\* C4 witness: on HDD, after the probe producer re-inserted entries, the
\* queue holds two entries with different physical offsets.
C4_Witness ==
    /\ windows
    /\ probe = "hdd"
    /\ resorted > 0
    /\ \E i, j \in 1..Len(files) : files[i].off > files[j].off /\ files[j].off # NoOffset

\* ------------------------------------------------------------------------
\* Bundle::add_version, Bundle::remove_version, Bundle::active_files
\* ------------------------------------------------------------------------
\* assert!(patch < 1000) of BundleVersion::new and Patch::new
PatchLimit == 1000

\* patch numbers handed to the calls: the base, a patch, the largest legal
\* patch and the first illegal one
PatchInputs == {0, 1, 999, 1000}

\* (ext_hash, name_hash) pairs: ext-first and name-first orders disagree
Pairs == {<<1, 2>>, <<2, 1>>}

\* BundleFile::new(name, ext, size, offset); size 0 is a tombstone
BundleFile(pair, size, offset) ==
    [ext |-> pair[1], name |-> pair[2], size |-> size, offset |-> offset]

\* the file tables BundleVersion::index can leave behind over Pairs: each
\* pair absent, a tombstone or a live file, sorted by (ext_hash, name_hash)
FileTables ==
    {<<>>} \cup
    {<<BundleFile(<<1, 2>>, s, 284)>> : s \in {0, 5}} \cup
    {<<BundleFile(<<2, 1>>, s, 284)>> : s \in {0, 5}} \cup
    {<<BundleFile(<<1, 2>>, s, 284), BundleFile(<<2, 1>>, t, 325)>> :
        s \in {0, 5}, t \in {0, 5}}

\* variant of NewVersionOk: no range check on the patch
NewVersionUnchecked(patch) == TRUE

\* BundleVersion::new: assert!(patch < 1000), otherwise the call panics
NewVersionOk(patch) == patch < PatchLimit

\* versions.binary_search_by(|probe| probe.patch().cmp(&patch)) on a list
\* sorted by patch: Ok(i) of the match, or Err(i) of the insertion point
SearchPatch(vs, patch) ==
    IF \E i \in 1..Len(vs) : vs[i].patch = patch
    THEN [ok |-> TRUE, i |-> CHOOSE i \in 1..Len(vs) : vs[i].patch = patch]
    ELSE [ok |-> FALSE,
          i |-> 1 + Cardinality({i \in 1..Len(vs) : vs[i].patch < patch})]

\* variant of add_version: Ok(i) inserts as well, as the queue code does
add_version_always(vs, v) ==
    InsertAt(vs, SearchPatch(vs, v.patch).i, v)

\* Bundle::add_version: if let Err(i) = search { versions.insert(i, version) }
add_version(vs, v) ==
    LET r == SearchPatch(vs, v.patch)
    IN  IF r.ok THEN vs ELSE InsertAt(vs, r.i, v)

\* Bundle::remove_version: if let Ok(i) = search { versions.remove(i) }
remove_version(vs, patch) ==
    LET r == SearchPatch(vs, patch)
    IN  IF r.ok THEN RemoveAt(vs, r.i) ELSE vs

\* (ext_hash, name_hash) comparison of active_files' binary search
PairLess(f, g) == f.ext < g.ext \/ (f.ext = g.ext /\ f.name < g.name)

\* if let Err(i) = out.binary_search_by(..) { out.insert(i, (patch, file)) }
InsertActive(out, patch, f) ==
    IF \E i \in 1..Len(out) : out[i].file.ext = f.ext /\ out[i].file.name = f.name
    THEN out
    ELSE InsertAt(out,
                  1 + Cardinality({i \in 1..Len(out) : PairLess(out[i].file, f)}),
                  [patch |-> patch, file |-> f])

\* for file in &bundle.files { ... }
RECURSIVE ActiveOfVersion(_, _, _)
ActiveOfVersion(out, patch, fs) ==
    IF fs = <<>> THEN out
    ELSE ActiveOfVersion(InsertActive(out, patch, Head(fs)), patch, Tail(fs))

\* for bundle in self.versions.iter().rev() { ... }
RECURSIVE ActiveOfVersions(_, _)
ActiveOfVersions(out, vs) ==
    IF vs = <<>> THEN out
    ELSE ActiveOfVersions(
             ActiveOfVersion(out, vs[Len(vs)].patch, vs[Len(vs)].files),
             SubSeq(vs, 1, Len(vs) - 1))

\* out.sort_by(|a, b| (a.0, a.1.offset()).cmp(..)): stable, ascending
RECURSIVE SortActive(_)
SortActive(s) ==
    IF s = <<>> THEN <<>>
    ELSE LET rest == SortActive(SubSeq(s, 1, Len(s) - 1))
             e == s[Len(s)]
             k == Cardinality({i \in 1..Len(rest) :
                    \/ rest[i].patch < e.patch
                    \/ rest[i].patch = e.patch /\ rest[i].file.offset <= e.file.offset})
         IN  InsertAt(rest, k + 1, e)

IsLive(e) == e.file.size > 0

\* variant of active_files: tombstones are skipped before the first-seen
\* test instead of being filtered out afterwards
RECURSIVE ActiveLiveOnly(_, _)
ActiveLiveOnly(out, vs) ==
    IF vs = <<>> THEN out
    ELSE ActiveLiveOnly(
             ActiveOfVersion(out, vs[Len(vs)].patch,
                             SelectSeq(vs[Len(vs)].files, LAMBDA f : f.size > 0)),
             SubSeq(vs, 1, Len(vs) - 1))

active_files_live_first(vs) == SortActive(ActiveLiveOnly(<<>>, vs))

\* Bundle::active_files
active_files(vs) ==
    SortActive(SelectSeq(ActiveOfVersions(<<>>, vs), IsLive))

BundleInit ==
    /\ versions = <<>>
    /\ lastop = "none"

\* bundle.add_version(BundleVersion::new(patch, size)) with an indexed table
AddVersion(patch, table) ==
    /\ NewVersionOk(patch)
    /\ versions' = add_version(versions, [patch |-> patch, files |-> table])
    /\ lastop' = IF SearchPatch(versions, patch).ok THEN "add_present" ELSE "add_new"
    /\ UNCHANGED notBundleVars

\* bundle.remove_version(Patch::new(patch))
RemoveVersion(patch) ==
    /\ patch < PatchLimit
    /\ versions' = remove_version(versions, patch)
    /\ lastop' = IF SearchPatch(versions, patch).ok THEN "removed" ELSE "remove_absent"
    /\ UNCHANGED notBundleVars

BundleNext ==
    \/ \E patch \in PatchInputs, table \in FileTables : AddVersion(patch, table)
    \/ \E patch \in PatchInputs : RemoveVersion(patch)

\* the other component stays as constructed
ReaderIdle ==
    /\ windows = FALSE /\ probe = "unknown" /\ phys = <<>> /\ nbundles = 0
    /\ num_threads = 0 /\ files = <<>> /\ num_files = NoNum
    /\ sorted = FALSE /\ read = FALSE /\ done = FALSE /\ is_ssd = FALSE
    /\ p1pc = "idle" /\ p1files = <<>> /\ p2pc = "idle"
    /\ subpc = <<>> /\ subidx = <<>> /\ subssd = <<>> /\ conspc = <<>>
    /\ delivered = <<>> /\ resorted = 0 /\ mainpc = "idle"

InitBundle == BundleInit /\ ReaderIdle /\ LoadIdle /\ CacheIdle /\ NameIdle /\ IndexIdle /\ StreamIdle /\ ExtractIdle /\ FileIdle /\ DirIdle /\ ProgIdle /\ GroupIdle

SpecBundle == InitBundle /\ [][BundleNext]_vars

\* ------------------------------------------------------------------------
\* Bundle claims
\* ------------------------------------------------------------------------
\* C5: the versions of a Bundle are strictly increasing by patch and every
\* patch is below 1000, and no call changes the version stored for a patch
\* that stays present: add_version on a present patch keeps the old version.
C5_VersionsStrictlySorted ==
    /\ [](/\ \A i \in 1..Len(versions) : versions[i].patch < 1000
          /\ \A i, j \in 1..Len(versions) :
                i < j => versions[i].patch < versions[j].patch)
    /\ [][\A i \in 1..Len(versions), j \in 1..Len(versions') :
             versions[i].patch = versions'[j].patch => versions[i] = versions'[j]]_vars

\* C5 witness: add_version was called with a patch already present while the
\* Bundle held the base, a patch and patch 999.
C5_Witness ==
    /\ lastop = "add_present"
    /\ Len(versions) = 3

\* the entries of active_files(versions) for one pair
ActiveFor(pair) ==
    {e \in SeqSet(active_files(versions)) :
        e.file.ext = pair[1] /\ e.file.name = pair[2]}
\* indices of the versions whose table holds the pair
Holders(pair) ==
    {i \in 1..Len(versions) :
        \E f \in SeqSet(versions[i].files) : f.ext = pair[1] /\ f.name = pair[2]}
TopEntry(pair) ==
    LET top == CHOOSE i \in Holders(pair) : \A j \in Holders(pair) : j <= i
    IN  [patch |-> versions[top].patch,
         file |-> CHOOSE f \in SeqSet(versions[top].files) :
                     f.ext = pair[1] /\ f.name = pair[2]]

\* C6: for each pair held by some version, active_files returns exactly the
\* entry of the highest patch holding it when that entry has size > 0 and
\* nothing for the pair when it is a tombstone; pairs held by no version
\* have no entry, and no pair has two.
C6_ActiveFiles ==
    /\ Len(active_files(versions)) = Cardinality(SeqSet(active_files(versions)))
    /\ \A pair \in Pairs :
          IF Holders(pair) = {} THEN ActiveFor(pair) = {}
          ELSE IF TopEntry(pair).file.size > 0
               THEN ActiveFor(pair) = {TopEntry(pair)}
               ELSE ActiveFor(pair) = {}

\* C6 witness: the highest patch tombstones a pair that a lower patch holds
\* live, while the other pair is live in the lower patch only.
C6_Witness ==
    /\ Len(versions) = 2
    /\ versions[1].files = <<BundleFile(<<1, 2>>, 5, 284), BundleFile(<<2, 1>>, 5, 325)>>
    /\ versions[2].files = <<BundleFile(<<2, 1>>, 0, 284)>>
    /\ Len(active_files(versions)) = 1

\* ------------------------------------------------------------------------
\* Bundle file names (stingray/src/utility.rs)
\* ------------------------------------------------------------------------
\* A directory entry "<16 hex digits>" (num = NoExt) or
\* "<16 hex digits>.patch_NNN" (num = NNN), the hex digits kept as hash.
NoExt == -1
Name(hash, num) == [hash |-> hash, num |-> num]

\* the bundle files the directory can hold: the base and two patches of
\* bundle 1, the base of bundle 2
DirNames == {Name(1, NoExt), Name(1, 1), Name(1, 101), Name(2, NoExt)}

\* variant of get_bundle_hash_patch: all three digits of NNN are parsed
get_bundle_hash_patch_3(name) ==
    <<name.hash, IF name.num = NoExt THEN 0 ELSE name.num>>

\* get_bundle_hash_patch: no extension is patch 0; a 9-character extension
\* yields s[7..9].parse::<u16>(), its last two characters
get_bundle_hash_patch(name) ==
    <<name.hash, IF name.num = NoExt THEN 0 ELSE name.num % 100>>

\* format_bundle: "{:016x}" for patch 0, else "{:016x}.patch_{:<03}"
format_bundle(hash, patch) ==
    IF patch = 0 THEN Name(hash, NoExt) ELSE Name(hash, patch)

\* ------------------------------------------------------------------------
\* The registry (Index.bundles) and the timestamp map (Index.timestamps)
\* ------------------------------------------------------------------------
EmptyMap == [k \in {} |-> 0]
MapPut(m, k, v) == [x \in DOMAIN m \cup {k} |-> IF x = k THEN v ELSE m[x]]
MapDel(m, k) == [x \in DOMAIN m \ {k} |-> m[x]]

\* bundles.binary_search_by(|probe| probe.hash().cmp(&hash))
SearchHash(bs, hash) ==
    IF \E i \in 1..Len(bs) : bs[i].hash = hash
    THEN [ok |-> TRUE, i |-> CHOOSE i \in 1..Len(bs) : bs[i].hash = hash]
    ELSE [ok |-> FALSE,
          i |-> 1 + Cardinality({i \in 1..Len(bs) : bs[i].hash < hash})]

\* variant of InsertVersion: a new Bundle is pushed at the end of the list
InsertVersionPush(bs, hash, v) ==
    LET r == SearchHash(bs, hash)
    IN  IF r.ok
        THEN [bs EXCEPT ![r.i].versions = add_version(@, v)]
        ELSE Append(bs, [hash |-> hash, versions |-> add_version(<<>>, v)])

\* index_files_mt, under the registry mutex: Ok(i) adds the version to the
\* Bundle found, Err(i) inserts a new Bundle holding it at i
InsertVersion(bs, hash, v) ==
    LET r == SearchHash(bs, hash)
    IN  IF r.ok
        THEN [bs EXCEPT ![r.i].versions = add_version(@, v)]
        ELSE InsertAt(bs, r.i, [hash |-> hash, versions |-> add_version(<<>>, v)])

\* find_and_check_bundles: Ok(i) => bundle.remove_version(patch); Err is
\* the panic "no bundle matching parallel timestamp"
RemoveVersionOf(bs, key) ==
    LET r == SearchHash(bs, key[1])
    IN  IF r.ok
        THEN [ok |-> TRUE,
              bundles |-> [bs EXCEPT ![r.i].versions = remove_version(@, key[2])]]
        ELSE [ok |-> FALSE, bundles |-> bs]

\* the version the registry holds for (hash, patch): <<>> or <<version>>
VersionOf(bs, key) ==
    LET r == SearchHash(bs, key[1])
    IN  IF ~r.ok THEN <<>>
        ELSE LET q == SearchPatch(bs[r.i].versions, key[2])
             IN  IF q.ok THEN <<bs[r.i].versions[q.i]>> ELSE <<>>

\* hash_bundle_database: Err(_) => 0, else the hash of the bytes
hash_bundle_database(d) == d

\* Index::new(dir)
NewIndex == [hash |-> hash_bundle_database(db), bundles |-> <<>>,
             timestamps |-> EmptyMap]

\* variant of has_updated: the fingerprint is never compared
has_updated_always(idx) == TRUE

\* Index::has_updated
has_updated(idx) == idx.hash # hash_bundle_database(db)

\* the orders in which read_dir can list the files present
ScanOrders ==
    LET present == {n \in DirNames : disk[n] # 0}
    IN  {o \in [1..Cardinality(present) -> present] :
            \A i, j \in DOMAIN o : i # j => o[i] # o[j]}

\* variant of CheckEntry: an entry whose time is the cached one is not
\* carried over to the new timestamp map
CheckEntryForgets(st, name) ==
    LET key == get_bundle_hash_patch(name)
        time == disk[name]
    IN  IF key \in DOMAIN st.old
        THEN IF time # st.old[key]
             THEN LET r == RemoveVersionOf(st.bundles, key)
                  IN  [old |-> MapDel(st.old, key),
                       new |-> MapPut(st.new, key, time),
                       bundles |-> r.bundles,
                       files |-> Append(st.files, key),
                       names |-> st.names \cup {name},
                       ok |-> st.ok /\ r.ok]
             ELSE [st EXCEPT !.old = MapDel(st.old, key)]
        ELSE [st EXCEPT !.new = MapPut(st.new, key, time),
                        !.files = Append(st.files, key),
                        !.names = st.names \cup {name}]

\* One call of the filter closure of the incremental scan on entry name.
\* st = [old, new, bundles, files, names, ok]
CheckEntry(st, name) ==
    LET key == get_bundle_hash_patch(name)
        time == disk[name]
    IN  IF key \in DOMAIN st.old
        THEN IF time # st.old[key]
             THEN LET r == RemoveVersionOf(st.bundles, key)
                  IN  [old |-> MapDel(st.old, key),
                       new |-> MapPut(st.new, key, time),
                       bundles |-> r.bundles,
                       files |-> Append(st.files, key),
                       names |-> st.names \cup {name},
                       ok |-> st.ok /\ r.ok]
             ELSE [st EXCEPT !.old = MapDel(st.old, key),
                             !.new = MapPut(st.new, key, time)]
        ELSE [st EXCEPT !.new = MapPut(st.new, key, time),
                        !.files = Append(st.files, key),
                        !.names = st.names \cup {name}]

RECURSIVE CheckEntries(_, _)
CheckEntries(st, order) ==
    IF order = <<>> THEN st
    ELSE CheckEntries(CheckEntry(st, Head(order)), Tail(order))

\* for ((hash, patch), ..) in old_timestamps { bundle.remove_version(patch) }
RECURSIVE RemoveLeftovers(_, _)
RemoveLeftovers(st, keys) ==
    IF keys = {} THEN st
    ELSE LET key == CHOOSE k \in keys : TRUE
             r == RemoveVersionOf(st.bundles, key)
         IN  RemoveLeftovers([st EXCEPT !.bundles = r.bundles,
                                        !.ok = st.ok /\ r.ok],
                             keys \ {key})

\* the non-incremental scan: timestamps.insert(..); true
RECURSIVE ScanAll(_, _)
ScanAll(st, order) ==
    IF order = <<>> THEN st
    ELSE LET key == get_bundle_hash_patch(Head(order))
         IN  ScanAll([st EXCEPT !.new = MapPut(st.new, key, disk[Head(order)]),
                                !.files = Append(st.files, key),
                                !.names = st.names \cup {Head(order)}],
                     Tail(order))

\* Index::find_and_check_bundles on idx with read_dir listing order
find_and_check_bundles(idx, order) ==
    LET st0 == [old |-> idx.timestamps, new |-> EmptyMap, bundles |-> idx.bundles,
                files |-> <<>>, names |-> {}, ok |-> TRUE]
    IN  IF idx.bundles # <<>>
        THEN LET st1 == CheckEntries(st0, order)
             IN  RemoveLeftovers(st1, DOMAIN st1.old)
        ELSE ScanAll(st0, order)

IndexWorkers == 1..MaxThreads

\* the (hash, patch) entries handed to Reader::open_bundles and not yet
\* returned by Reader::pop, which returns each of them once, in any order
RECURSIVE PendingOf(_)
PendingOf(fs) ==
    IF fs = <<>> THEN EmptyBag ELSE PendingOf(Tail(fs)) (+) SetToBag({Head(fs)})

LoadInit ==
    /\ db = 1
    /\ disk = [n \in DirNames |-> 1]
    /\ cache = <<>>
    /\ index = <<>>
    /\ phase = "idle"
    /\ mode = "none"
    /\ scanned = FALSE
    /\ queue = EmptyBag
    /\ queued = {}
    /\ wpc = [w \in IndexWorkers |-> "pop"]
    /\ wver = [w \in IndexWorkers |-> <<>>]
    /\ runs = 0
    /\ edits = 0

\* between runs: a bundle file is written, created or deleted
TouchFile(name, time) ==
    /\ phase = "idle"
    /\ runs < MaxRuns
    /\ edits < MaxEdits
    /\ time # disk[name]
    /\ disk' = [disk EXCEPT ![name] = time]
    /\ edits' = edits + 1
    /\ UNCHANGED <<notLoadVars, db, cache, index, phase, mode,
                   scanned, queue, queued, wpc, wver, runs>>

\* between runs: bundle_database.data is rewritten, deleted or created
TouchDatabase(d) ==
    /\ phase = "idle"
    /\ runs < MaxRuns
    /\ edits < MaxEdits
    /\ d # db
    /\ db' = d
    /\ edits' = edits + 1
    /\ UNCHANGED <<notLoadVars, disk, cache, index, phase, mode,
                   scanned, queue, queued, wpc, wver, runs>>

\* load_index returns the cached Index: load_reader Ok and !has_updated()
LoadVerbatim ==
    /\ phase = "idle"
    /\ runs < MaxRuns
    /\ cache # <<>>
    /\ ~has_updated(cache[1])
    /\ index' = cache
    /\ mode' = "verbatim"
    /\ phase' = "loaded"
    /\ scanned' = FALSE
    /\ queue' = EmptyBag
    /\ queued' = {}
    /\ runs' = runs + 1
    /\ UNCHANGED <<notLoadVars, db, disk, cache, wpc, wver, edits>>

\* the start of index_files_mt on idx: find_and_check_bundles, then either
\* nothing to index, the workers are started, or the scan panicked
StartIndexing(idx, order, how) ==
    LET r == find_and_check_bundles(idx, order)
    IN  /\ mode' = how
        /\ scanned' = TRUE
        /\ runs' = runs + 1
        /\ IF r.ok
           THEN /\ index' = <<[hash |-> idx.hash, bundles |-> r.bundles,
                               timestamps |-> r.new]>>
                /\ queue' = PendingOf(r.files)
                /\ queued' = r.names
                /\ phase' = IF r.files = <<>> THEN "loaded" ELSE "indexing"
           ELSE /\ index' = <<>>
                /\ queue' = EmptyBag
                /\ queued' = {}
                /\ phase' = "idle"
        /\ UNCHANGED <<notLoadVars, db, disk, cache, wpc, wver, edits>>

\* load_index updates the cached Index: load_reader Ok and has_updated()
LoadUpdate ==
    /\ phase = "idle"
    /\ runs < MaxRuns
    /\ cache # <<>>
    /\ has_updated(cache[1])
    /\ \E order \in ScanOrders : StartIndexing(cache[1], order, "update")

\* load_index builds a new Index: no cache file (load_reader Err)
LoadNew ==
    /\ phase = "idle"
    /\ runs < MaxRuns
    /\ cache = <<>>
    /\ \E order \in ScanOrders : StartIndexing(NewIndex, order, "new")

\* load_index builds a new Index: --force passes no index file
LoadForced ==
    /\ phase = "idle"
    /\ runs < MaxRuns
    /\ \E order \in ScanOrders : StartIndexing(NewIndex, order, "forced")

\* a worker's reader.pop() returns the entry key, the file format_bundle
\* names is opened and BundleVersion::index reads it
WorkerPop(w, key) ==
    /\ phase = "indexing"
    /\ wpc[w] = "pop"
    /\ BagIn(key, queue)
    /\ LET name == format_bundle(key[1], key[2])
       IN  /\ name \in DirNames
           /\ disk[name] # 0
           /\ wver' = [wver EXCEPT ![w] =
                          <<[hash |-> key[1],
                             version |-> [patch |-> key[2], file |-> name,
                                          time |-> disk[name]]]>>]
    /\ queue' = queue (-) SetToBag({key})
    /\ wpc' = [wpc EXCEPT ![w] = "insert"]
    /\ UNCHANGED <<notLoadVars, db, disk, cache, index, phase, mode,
                   scanned, queued, runs, edits>>

\* OpenOptions::open(path).unwrap() panics: format_bundle names no file of
\* the directory, the scope's unwrap panics and the process ends unsaved
WorkerOpenFails(key) ==
    /\ phase = "indexing"
    /\ BagIn(key, queue)
    /\ LET name == format_bundle(key[1], key[2])
       IN  name \notin DirNames \/ disk[name] = 0
    /\ phase' = "idle"
    /\ index' = <<>>
    /\ queue' = EmptyBag
    /\ wpc' = [w \in IndexWorkers |-> "pop"]
    /\ wver' = [w \in IndexWorkers |-> <<>>]
    /\ UNCHANGED <<notLoadVars, db, disk, cache, mode, scanned,
                   queued, runs, edits>>

\* bundles.lock(); binary search; add_version or insert a new Bundle
WorkerInsert(w) ==
    /\ phase = "indexing"
    /\ wpc[w] = "insert"
    /\ index' = <<[index[1] EXCEPT !.bundles =
                     InsertVersion(@, wver[w][1].hash, wver[w][1].version)]>>
    /\ wpc' = [wpc EXCEPT ![w] = "pop"]
    /\ wver' = [wver EXCEPT ![w] = <<>>]
    /\ UNCHANGED <<notLoadVars, db, disk, cache, phase, mode,
                   scanned, queue, queued, runs, edits>>

\* every worker's pop returned None and was joined: index_files_mt returns
LoadDone ==
    /\ phase = "indexing"
    /\ queue = EmptyBag
    /\ \A w \in IndexWorkers : wpc[w] = "pop"
    /\ phase' = "loaded"
    /\ UNCHANGED <<notLoadVars, db, disk, cache, index, mode,
                   scanned, queue, queued, wpc, wver, runs, edits>>

\* main: if index.dirty() && !no_save { save_reader(..) }; the process ends
Exit(no_save) ==
    /\ phase = "loaded"
    /\ cache' = IF mode # "verbatim" /\ ~no_save THEN index ELSE cache
    /\ phase' = "idle"
    /\ index' = <<>>
    /\ UNCHANGED <<notLoadVars, db, disk, mode, scanned, queue,
                   queued, wpc, wver, runs, edits>>

LoadNext ==
    \/ \E name \in DirNames, time \in 0..2 : TouchFile(name, time)
    \/ \E d \in 0..2 : TouchDatabase(d)
    \/ LoadVerbatim
    \/ LoadUpdate
    \/ LoadNew
    \/ LoadForced
    \/ \E w \in IndexWorkers, key \in BagToSet(queue) : WorkerPop(w, key)
    \/ \E key \in BagToSet(queue) : WorkerOpenFails(key)
    \/ \E w \in IndexWorkers : WorkerInsert(w)
    \/ LoadDone
    \/ \E no_save \in BOOLEAN : Exit(no_save)

InitLoad == LoadInit /\ ReaderIdle /\ BundleIdle /\ CacheIdle /\ NameIdle /\ IndexIdle /\ StreamIdle /\ ExtractIdle /\ FileIdle /\ DirIdle /\ ProgIdle /\ GroupIdle

SpecLoad == InitLoad /\ [][LoadNext]_vars

\* ------------------------------------------------------------------------
\* Claims about load_index and the registry
\* ------------------------------------------------------------------------
Running == phase \in {"indexing", "loaded"}

RegistrySorted(bs) ==
    \A i, j \in 1..Len(bs) : i < j => bs[i].hash < bs[j].hash

RegistryKeys(bs) ==
    UNION {{<<bs[i].hash, bs[i].versions[j].patch>> :
               j \in 1..Len(bs[i].versions)} : i \in 1..Len(bs)}

\* the step is worker w's insertion into the registry
Inserts(w) == wpc[w] = "insert" /\ wpc'[w] = "pop" /\ phase' = "indexing"

\* C7: under any interleaving of the indexing workers the registry stays
\* strictly ascending by bundle hash (so one Bundle per hash); when a worker
\* has inserted, the Bundle of its hash is in the list with a version of its
\* patch, and no version the registry held is lost by the insertion.
C7_RegistrySorted ==
    /\ [](index # <<>> => RegistrySorted(index[1].bundles))
    /\ [][\A w \in IndexWorkers : Inserts(w) =>
            /\ <<wver[w][1].hash, wver[w][1].version.patch>>
                  \in RegistryKeys(index'[1].bundles)
            /\ \A key \in RegistryKeys(index[1].bundles) :
                  VersionOf(index'[1].bundles, key) = VersionOf(index[1].bundles, key)
         ]_vars

\* two patches of bundle 1 were inserted in front of bundle 2 while another
\* worker still holds a version of bundle 1
C7_Witness ==
    /\ phase = "indexing"
    /\ mode = "new"
    /\ Len(index[1].bundles) = 2
    /\ Len(index[1].bundles[1].versions) = 2
    /\ \E w \in IndexWorkers : wpc[w] = "insert" /\ wver[w][1].hash = 1

\* C8: load_index with a readable cache (not --force): when the fingerprint
\* of bundle_database.data differs from the cached one the cached Index is
\* re-validated by a directory scan; when it is equal the cached Index is
\* returned as it is, with no scan, nothing queued and no entry changed.
C8_FingerprintGate ==
    (Running /\ cache # <<>> /\ mode # "forced") =>
        IF cache[1].hash = hash_bundle_database(db)
        THEN /\ mode = "verbatim"
             /\ phase = "loaded"
             /\ ~scanned
             /\ queued = {}
             /\ queue = EmptyBag
             /\ index = cache
        ELSE /\ mode = "update"
             /\ scanned

\* the cached Index was returned although a bundle file has changed since
C8_Witness ==
    /\ phase = "loaded"
    /\ mode = "verbatim"
    /\ index = cache
    /\ \E n \in DirNames :
          LET key == get_bundle_hash_patch(n)
          IN  /\ key \in DOMAIN cache[1].timestamps
              /\ disk[n] # cache[1].timestamps[key]

\* a re-validation of a cache that holds bundles
Revalidating == mode = "update" /\ cache # <<>> /\ cache[1].bundles # <<>>

\* file n has another modification time than the cached one, or is not in
\* the cached map
ChangedOrNew(n) ==
    LET key == get_bundle_hash_patch(n)
    IN  \/ key \notin DOMAIN cache[1].timestamps
        \/ cache[1].timestamps[key] # disk[n]

\* the version BundleVersion::index builds from file n as it is now
BuiltFrom(n) ==
    [patch |-> get_bundle_hash_patch(n)[2], file |-> n, time |-> disk[n]]

\* C9: in a re-validation every bundle file that is changed or not in the
\* cached map is queued, and when the load has completed the registry's
\* version for its (hash, patch) is the one built from the current file.
C9_ChangedReindexed ==
    (Running /\ Revalidating) =>
        \A n \in DirNames :
            (disk[n] # 0 /\ ChangedOrNew(n)) =>
                /\ n \in queued
                /\ phase = "loaded" =>
                      VersionOf(index[1].bundles, get_bundle_hash_patch(n))
                          = <<BuiltFrom(n)>>

\* C10: in a re-validation a bundle file whose modification time equals the
\* cached timestamp is not queued and its cached version stays as it is.
C10_UnchangedKept ==
    (Running /\ Revalidating) =>
        \A n \in DirNames :
            (disk[n] # 0 /\ ~ChangedOrNew(n)) =>
                /\ n \notin queued
                /\ VersionOf(index[1].bundles, get_bundle_hash_patch(n))
                      = VersionOf(cache[1].bundles, get_bundle_hash_patch(n))

\* the file of (hash, patch): the one format_bundle names is in the directory
FilePresent(key) ==
    LET name == format_bundle(key[1], key[2])
    IN  name \in DirNames /\ disk[name] # 0

\* C11: after a re-validation every (hash, patch) of the cached timestamp map
\* whose file is no longer in the directory has no version in the registry
\* and no entry in the timestamp map.
C11_LeftoversRemoved ==
    (Running /\ mode = "update" /\ cache # <<>>) =>
        \A key \in DOMAIN cache[1].timestamps :
            ~FilePresent(key) =>
                /\ key \notin RegistryKeys(index[1].bundles)
                /\ key \notin DOMAIN index[1].timestamps

\* the bundle files in the directory
PresentNames == {n \in DirNames : disk[n] # 0}

\* C12: when load_reader fails (the cache file is missing or is rejected),
\* load_index goes on with a new empty Index for the directory, the scan
\* reports every bundle file, and the completed load holds for every bundle
\* file the version built from it.
C12_UnreadableCacheReindexes ==
    (Running /\ mode = "new") =>
        /\ cache = <<>>
        /\ index[1].hash = hash_bundle_database(db)
        /\ queued = PresentNames
        /\ phase = "loaded" =>
              \A n \in PresentNames :
                  VersionOf(index[1].bundles, get_bundle_hash_patch(n))
                      = <<BuiltFrom(n)>>

\* ------------------------------------------------------------------------
\* The cache file: save_reader and load_reader (core/utility.rs)
\* ------------------------------------------------------------------------
\* 8-byte words of the file: MAGIC_WORD, a DefaultHasher value of a payload,
\* or other bytes
MAGIC_WORD == [w |-> "magic", of |-> <<>>]
JunkWord == [w |-> "junk", of |-> <<>>]
\* hasher.write(&bin); hasher.finish(): equal payloads, equal hashes
PayloadHash(bin) == [w |-> "hash", of |-> <<bin>>]

SAVE_VERSION == 1
\* bytes before the compressed payload: magic 0..8, version 8..10, hash 10..18
HeaderLen == 18
\* load_reader wants file.metadata()?.len() > 20
MinLoadLen == 20
\* file.read(&mut [0; 8]) yields Ok(8) only from a file of 8 bytes or more
WordLen == 8
\* length of the shortest zlib stream
MinZlibLen == 8

\* BundleReader as index() leaves it, and as serde restores it
RunReader == [offset |-> 12, size |-> 1, chunk_sizes |-> <<0>>, id |-> 2,
              version |-> <<6>>, is_ssd |-> TRUE, unbuffered |-> TRUE]

CachedVersion == [patch |-> 1, diff |-> 0, size |-> 1, reader |-> RunReader,
                  files |-> <<[hash |-> 1, ext |-> 2, size |-> 1,
                              offset |-> 0, flags |-> 0]>>]

\* the Index values handed to save_reader (main saves a dirty Index): empty
\* or one bundle, either SSD decision, with or without loaded keys
Indexes ==
    {[dir |-> "bundle", is_ssd |-> ssd, hash |-> 1, bundles |-> bt[1],
      timestamps |-> bt[2], dirty |-> TRUE, key_map |-> keys] :
        ssd \in BOOLEAN, keys \in {{}, {"units/x"}},
        bt \in {<<<<>>, EmptyMap>>,
                <<<<[hash |-> 1, versions |-> <<CachedVersion>>]>>,
                  MapPut(EmptyMap, <<1, 1>>, 1)>>}}

\* serde of BundleReader: offset, id, version, is_ssd, unbuffered are skipped
SerializeReader(r) == [size |-> r.size, chunk_sizes |-> r.chunk_sizes]

SerializeVersion(v) ==
    [patch |-> v.patch, diff |-> v.diff, size |-> v.size,
     reader |-> SerializeReader(v.reader), files |-> v.files]

SerializeBundle(b) ==
    [hash |-> b.hash,
     versions |-> [i \in 1..Len(b.versions) |-> SerializeVersion(b.versions[i])]]

\* variant of Serialize: the SSD decision is skipped as well
SerializeNoSsd(idx) ==
    [dir |-> idx.dir, is_ssd |-> FALSE, hash |-> idx.hash,
     bundles |-> [i \in 1..Len(idx.bundles) |-> SerializeBundle(idx.bundles[i])],
     timestamps |-> idx.timestamps]

\* bincode::serialize(&index): dirty and key_map are skipped
Serialize(idx) ==
    [dir |-> idx.dir, is_ssd |-> idx.is_ssd, hash |-> idx.hash,
     bundles |-> [i \in 1..Len(idx.bundles) |-> SerializeBundle(idx.bundles[i])],
     timestamps |-> idx.timestamps]

\* skipped fields of BundleReader get their defaults, id a new unique id
DeserializeReader(r, id) ==
    [offset |-> 0, size |-> r.size, chunk_sizes |-> r.chunk_sizes, id |-> id,
     version |-> <<>>, is_ssd |-> FALSE, unbuffered |-> FALSE]

DeserializeBundle(b) ==
    [hash |-> b.hash,
     versions |-> [i \in 1..Len(b.versions) |->
                      [b.versions[i] EXCEPT
                          !.reader = DeserializeReader(@, i)]]]

\* bincode::deserialize: dirty is false, key_map is KeyMap::default()
Deserialize(bin) ==
    [dir |-> bin.dir, is_ssd |-> bin.is_ssd, hash |-> bin.hash,
     bundles |-> [i \in 1..Len(bin.bundles) |-> DeserializeBundle(bin.bundles[i])],
     timestamps |-> bin.timestamps, dirty |-> FALSE, key_map |-> {}]

\* ZlibEncoder over bin: a stream ZlibDecoder reads back
Compress(bin) == [zlib |-> TRUE, bin |-> <<bin>>]
CompressedLen(bin) == MinZlibLen + Len(bin.bundles)

\* the file save_reader writes: magic at 0, version at 8, hash at 10, the
\* compressed payload at 18, set_len(18 + out.len())
WrittenFile(bin) ==
    [len |-> HeaderLen + CompressedLen(bin), magic |-> MAGIC_WORD,
     version |-> SAVE_VERSION, stored |-> PayloadHash(bin),
     rest |-> Compress(bin)]

\* variant of ReadFileHash: the 8 bytes at 10..18 are read
ReadStoredHash(file) ==
    IF file # <<>> /\ file[1].len >= HeaderLen THEN <<file[1].stored>> ELSE <<>>

\* the 8 bytes save_reader reads from the start of the opened file: <<>> is
\* None (a file just created or shorter than 8 bytes)
ReadFileHash(file) ==
    IF file # <<>> /\ file[1].len >= WordLen THEN <<file[1].magic>> ELSE <<>>

\* OpenOptions::new().read(true).write(true).create(true).open(path)
OpenCreate(file) ==
    IF file # <<>> THEN file
    ELSE <<[len |-> 0, magic |-> JunkWord, version |-> 0, stored |-> JunkWord,
            rest |-> [zlib |-> FALSE, bin |-> <<>>]]>>

\* save_reader(path, index, force_save): the file afterwards and whether
\* it was written
save_reader(file, idx, force_save) ==
    LET bin == Serialize(idx)
        hash == PayloadHash(bin)
        write == force_save \/ ReadFileHash(OpenCreate(file)) # <<hash>>
    IN  IF write
        THEN [file |-> <<WrittenFile(bin)>>, wrote |-> TRUE]
        ELSE [file |-> OpenCreate(file), wrote |-> FALSE]

\* load_reader(path): <<>> for Err, <<index>> for Ok(index)
load_reader(file) ==
    IF file = <<>> THEN <<>>
    ELSE IF ~(file[1].len > MinLoadLen) THEN <<>>
    ELSE IF file[1].magic # MAGIC_WORD THEN <<>>
    ELSE IF file[1].version # SAVE_VERSION THEN <<>>
    ELSE IF ~file[1].rest.zlib THEN <<>>
    ELSE IF file[1].rest.bin = <<>> THEN <<>>
    ELSE <<Deserialize(file[1].rest.bin[1])>>

\* the ways a cache file is found unusable
DamageKinds == {"short", "tiny", "magic", "version", "zlib", "bincode"}

Damaged(f, kind, word) ==
    CASE kind = "short" -> [f EXCEPT !.len = MinLoadLen]
      [] kind = "tiny" -> [f EXCEPT !.len = WordLen - 1]
      [] kind = "magic" -> [f EXCEPT !.magic = word]
      [] kind = "version" -> [f EXCEPT !.version = SAVE_VERSION + 1]
      [] kind = "zlib" -> [f EXCEPT !.rest = [zlib |-> FALSE, bin |-> <<>>]]
      [] kind = "bincode" -> [f EXCEPT !.rest = [zlib |-> TRUE, bin |-> <<>>]]

CacheInit ==
    /\ cfile = <<>>
    /\ cidx \in {<<idx>> : idx \in Indexes}
    /\ cprev = <<>>
    /\ cforce = FALSE
    /\ cloaded = <<>>
    /\ cop = "none"

\* save_reader(&index_file, &index, force_index)
SaveReader(force_save) ==
    LET r == save_reader(cfile, cidx[1], force_save)
    IN  /\ cprev' = cfile
        /\ cforce' = force_save
        /\ cfile' = r.file
        /\ cop' = IF r.wrote THEN "written" ELSE "skipped"
        /\ cloaded' = <<>>
        /\ UNCHANGED <<notCacheVars, cidx>>

\* load_reader(index_file)
LoadReader ==
    /\ cloaded' = load_reader(cfile)
    /\ cop' = IF cop = "written" THEN "written_loaded" ELSE "loaded"
    /\ cprev' = <<>>
    /\ cforce' = FALSE
    /\ UNCHANGED <<notCacheVars, cfile, cidx>>

\* the Index changes in memory: re-indexing, load_keys, extraction
ChangeIndex(idx) ==
    /\ idx # cidx[1]
    /\ cidx' = <<idx>>
    /\ cop' = "changed"
    /\ cprev' = <<>>
    /\ cforce' = FALSE
    /\ cloaded' = <<>>
    /\ UNCHANGED <<notCacheVars, cfile>>

\* a usable cache file is overwritten or cut outside the program
DamageFile(kind, word) ==
    /\ load_reader(cfile) # <<>>
    /\ cfile' = <<Damaged(cfile[1], kind, word)>>
    /\ cop' = "damaged"
    /\ cprev' = <<>>
    /\ cforce' = FALSE
    /\ cloaded' = <<>>
    /\ UNCHANGED <<notCacheVars, cidx>>

\* the cache file is deleted
DeleteFile ==
    /\ cfile # <<>>
    /\ cfile' = <<>>
    /\ cop' = "deleted"
    /\ cprev' = <<>>
    /\ cforce' = FALSE
    /\ cloaded' = <<>>
    /\ UNCHANGED <<notCacheVars, cidx>>

CacheNext ==
    \/ \E force_save \in BOOLEAN : SaveReader(force_save)
    \/ LoadReader
    \/ \E idx \in Indexes : ChangeIndex(idx)
    \/ \E kind \in DamageKinds,
          word \in {JunkWord, PayloadHash(Serialize(cidx[1]))} :
            DamageFile(kind, word)
    \/ DeleteFile

InitCache == CacheInit /\ ReaderIdle /\ BundleIdle /\ LoadIdle /\ NameIdle /\ IndexIdle /\ StreamIdle /\ ExtractIdle /\ FileIdle /\ DirIdle /\ ProgIdle /\ GroupIdle

SpecCache == InitCache /\ [][CacheNext]_vars

\* ------------------------------------------------------------------------
\* Claims about the cache file
\* ------------------------------------------------------------------------
\* C13: a save_reader call with force_save = false on an Index whose payload
\* the file already holds (it is the file an earlier save of this Index
\* wrote) skips the write and leaves the file as it was.
C13_SecondSaveSkips ==
    (/\ cop \in {"written", "skipped"}
     /\ ~cforce
     /\ cprev = <<WrittenFile(Serialize(cidx[1]))>>)
        => (cop = "skipped" /\ cfile = cprev)

\* the fields serde stores are equal in two BundleVersions
SameVersion(v, u) ==
    /\ v.patch = u.patch /\ v.diff = u.diff /\ v.size = u.size
    /\ v.reader.size = u.reader.size
    /\ v.reader.chunk_sizes = u.reader.chunk_sizes
    /\ v.files = u.files

SameBundle(b, c) ==
    /\ b.hash = c.hash
    /\ Len(b.versions) = Len(c.versions)
    /\ \A i \in 1..Len(b.versions) : SameVersion(b.versions[i], c.versions[i])

Digits == <<"0", "1", "2", "3", "4", "5", "6", "7", "8", "9">>
HexLower == Digits \o <<"a", "b", "c", "d", "e", "f">>
HexUpper == Digits \o <<"A", "B", "C", "D", "E", "F">>

\* name.len() != 16 => None
StemLen == 16
\* ext.len() == 9
ExtLen == 9
\* s[7..9], counted from 1
PatchFrom == 8
PatchTo == 9
\* width of {:<03}
PatchWidth == 3

IsDigit(c) == \E i \in 1..Len(Digits) : Digits[i] = c
DigitVal(c) == (CHOOSE i \in 1..Len(Digits) : Digits[i] = c) - 1
IsHex(c) == (\E i \in 1..Len(HexLower) : HexLower[i] = c)
            \/ (\E i \in 1..Len(HexUpper) : HexUpper[i] = c)
LowerOf(c) ==
    IF \E i \in 1..Len(HexUpper) : HexUpper[i] = c
    THEN HexLower[CHOOSE i \in 1..Len(HexUpper) : HexUpper[i] = c]
    ELSE c

Repeat(c, n) == [i \in 1..n |-> c]

\* the digits after the sign the integer parsers of std accept: a leading
\* "+" is dropped, a lone sign is an error (<<>>)
AfterSign(str) ==
    IF str = <<>> THEN <<>>
    ELSE IF Len(str) = 1 /\ str[1] \in {"+", "-"} THEN <<>>
    ELSE IF str[1] = "+" THEN Tail(str) ELSE str

\* u64::from_str_radix(name, 16).ok(): <<>> or <<hash>>
from_str_radix_16(str) ==
    LET body == AfterSign(str)
    IN  IF body = <<>> \/ \E i \in 1..Len(body) : ~IsHex(body[i]) THEN <<>>
        ELSE <<Repeat("0", StemLen - Len(body))
                 \o [i \in 1..Len(body) |-> LowerOf(body[i])]>>

RECURSIVE DecimalValue(_)
DecimalValue(body) ==
    IF body = <<>> THEN 0
    ELSE 10 * DecimalValue(SubSeq(body, 1, Len(body) - 1))
           + DigitVal(body[Len(body)])

\* str.parse::<u16>().ok(): <<>> or <<number>>
parse_u16(str) ==
    LET body == AfterSign(str)
    IN  IF body = <<>> \/ \E i \in 1..Len(body) : ~IsDigit(body[i]) THEN <<>>
        ELSE <<DecimalValue(body)>>

\* variant of PatchChars: the three characters after "patch_"
PatchChars3(ext) == SubSeq(ext, PatchFrom - 1, PatchTo)

\* s[7..9] of the extension
PatchChars(ext) == SubSeq(ext, PatchFrom, PatchTo)

\* get_bundle_hash_patch_: <<>> is None, else <<<<hash, patch>>>>
get_bundle_hash_patch_(name) ==
    IF Len(name.stem) # StemLen THEN <<>>
    ELSE LET hash == from_str_radix_16(name.stem)
             patch == IF name.ext = <<>> THEN <<0>>
                      ELSE IF Len(name.ext[1]) = ExtLen
                           THEN parse_u16(PatchChars(name.ext[1]))
                           ELSE <<>>
         IN  IF hash = <<>> \/ patch = <<>> THEN <<>>
             ELSE <<<<hash[1], patch[1]>>>>

\* {:<03}: the decimal digits, zeros in front up to three characters
Dec3(x) ==
    LET ds == IF x >= 100
              THEN <<x \div 100, (x \div 10) % 10, x % 10>>
              ELSE IF x >= 10 THEN <<x \div 10, x % 10>> ELSE <<x>>
    IN  Repeat("0", PatchWidth - Len(ds)) \o [i \in 1..Len(ds) |-> Digits[ds[i] + 1]]

PatchPrefix == <<"p", "a", "t", "c", "h", "_">>

\* format_bundle_: "{:016x}" or "{:016x}.patch_{:<03}"
format_bundle_(hash, patch) ==
    IF patch = 0 THEN [stem |-> hash, ext |-> <<>>]
    ELSE [stem |-> hash, ext |-> <<PatchPrefix \o Dec3(patch)>>]

\* hashes handed to format_bundle: 0, u64::MAX and 0x0123456789abcdef
Hashes == {Repeat("0", StemLen), Repeat("f", StemLen), HexLower}

\* every patch Patch::new accepts
Patches == 0..(PatchLimit - 1)

\* stems of directory entries: the hashes, upper-case digits, a sign, a
\* letter that is no hex digit, one character less and one more
Stems ==
    Hashes \cup {HexUpper, <<"+">> \o Repeat("1", StemLen - 1),
                 Repeat("g", StemLen), Repeat("0", StemLen - 1),
                 Repeat("0", StemLen + 1)}

Triples ==
    {<<"0", "0", "0">>, <<"0", "0", "1">>, <<"0", "0", "6">>,
     <<"0", "9", "9">>, <<"1", "0", "0">>, <<"1", "0", "1">>,
     <<"9", "9", "9">>, <<"0", "+", "1">>, <<"0", "x", "1">>,
     <<"0", "0", "x">>}

\* extensions of directory entries: none, patch_NNN, another 6-character
\* prefix, and extensions of 3, 8 and 10 characters
Exts ==
    {<<>>, <<<<"t", "x", "t">>>>, <<PatchPrefix \o <<"0", "1">>>>,
     <<PatchPrefix \o <<"0", "0", "0", "1">>>>}
    \cup {<<PatchPrefix \o t>> : t \in Triples}
    \cup {<<<<"a", "b", "c", "d", "e", "f">> \o t>> : t \in Triples}

FileNames == {[stem |-> st, ext |-> e] : st \in Stems, e \in Exts}

NameInit == nin = <<>> /\ nout = <<>> /\ nop = "none"

\* scan_dir_filter calls get_bundle_hash_patch on a directory entry
ParseName(name) ==
    /\ nop = "none"
    /\ nin' = name
    /\ nout' = get_bundle_hash_patch_(name)
    /\ nop' = "parse"
    /\ UNCHANGED notNameVars

\* get_bundle_hash_patch(format_bundle(hash, patch))
FormatThenParse(hash, patch) ==
    /\ nop = "none"
    /\ nin' = <<hash, patch>>
    /\ nout' = get_bundle_hash_patch_(format_bundle_(hash, patch))
    /\ nop' = "format_parse"
    /\ UNCHANGED notNameVars

\* format_bundle(hash, patch) of the (hash, patch) parsed from a name
ParseThenFormat(name) ==
    /\ nop = "none"
    /\ get_bundle_hash_patch_(name) # <<>>
    /\ nin' = name
    /\ nout' = LET r == get_bundle_hash_patch_(name)[1]
               IN  <<format_bundle_(r[1], r[2])>>
    /\ nop' = "parse_format"
    /\ UNCHANGED notNameVars

NameNext ==
    \/ \E name \in FileNames : ParseName(name)
    \/ \E hash \in Hashes, patch \in Patches : FormatThenParse(hash, patch)
    \/ \E name \in FileNames : ParseThenFormat(name)

InitName == NameInit /\ ReaderIdle /\ BundleIdle /\ LoadIdle /\ CacheIdle /\ IndexIdle /\ StreamIdle /\ ExtractIdle /\ FileIdle /\ DirIdle /\ ProgIdle /\ GroupIdle

SpecName == InitName /\ [][NameNext]_vars

\* 16 lowercase hex digits, then nothing or patch_NNN with NNN in 001..999
ValidName(name) ==
    /\ Len(name.stem) = StemLen
    /\ \A i \in 1..StemLen : \E k \in 1..Len(HexLower) : HexLower[k] = name.stem[i]
    /\ \/ name.ext = <<>>
       \/ /\ Len(name.ext[1]) = ExtLen
          /\ SubSeq(name.ext[1], 1, Len(PatchPrefix)) = PatchPrefix
          /\ \A i \in Len(PatchPrefix) + 1..ExtLen : IsDigit(name.ext[1][i])
          /\ SubSeq(name.ext[1], Len(PatchPrefix) + 1, ExtLen) # <<"0", "0", "0">>

\* C15: get_bundle_hash_patch(format_bundle(h, p)) is (h, p) for every hash
\* and every patch 0..999, and format_bundle of the parse of a valid bundle
\* file name is that name.
C15_NameRoundTrip ==
    /\ nop = "format_parse" => nout = <<nin>>
    /\ (nop = "parse_format" /\ ValidName(nin)) => nout = <<nin>>

\* C16: get_bundle_hash_patch returns None for every name that is not 16
\* lowercase hex digits with nothing or .patch_NNN (001..999) after them.
C16_OtherNamesIgnored ==
    (nop = "parse" /\ ~ValidName(nin)) => nout = <<>>

\* ------------------------------------------------------------------------
\* BundleVersion::index: the file table of one bundle (stingray/src/bundle.rs)

\* the largest num_files of a bundle
MaxFiles == 2

\* the header read before the file table: self.reader.read(fd, buffer, 0..260)
IndexStart == 260

\* bytes of one index entry up to format 5 (no size field) and from format 6
EntrySize5 == 20
EntrySize6 == 24

\* the first format that stores the size in the index
SizedFormat == 6

\* bytes a file with a size takes in front of its data, and bytes a deleted
\* entry (kind 1 or 2) takes
FileHeader == 36
DeletedLen == 24

\* ext hashes of the entries: 1 stands for a type the table of FileKind knows
\* and trusts (lua), 2 for strings, 3 for a hash the table does not hold
ExtHashes == {1, 2, 3}
NameHashes == {1, 2}

\* FileKind::with_hash
with_hash(hash) ==
    CASE hash = 1 -> "lua"
      [] hash = 2 -> "strings"
      [] hash = 4 -> "wwise_dep"
      [] hash = 5 -> "texture"
      [] OTHER -> "Unknown"

\* FileKind::Unknown | FileKind::particles | FileKind::slug | FileKind::strings
Unreliable(kind) == kind \in {"Unknown", "particles", "slug", "strings"}

\* the fields of one index entry: ext, name, kind and (format 6) size; an
\* entry is a file of 5 bytes, an empty file, or deleted (kind 1 or 2)
TableEntries ==
    [ext : ExtHashes, name : NameHashes, kind : {0}, size : {0, 5}] \cup
    [ext : ExtHashes, name : NameHashes, kind : {1, 2}, size : {0}]

Tables == UNION {[1..n -> TableEntries] : n \in 0..MaxFiles}

\* let index_size = if format < 6 { 20 } else { 24 }
index_size(format) == IF format < SizedFormat THEN EntrySize5 ELSE EntrySize6

\* let size = if format < 6 { 0 } else { u32::from_le_bytes(..) }
SizeOf(format, e) == IF format < SizedFormat THEN 0 ELSE e.size

\* offset += if size > 0 { 36 + size } else if kind == 1 || kind == 2 { 24 } else { 0 }
Advance(size, kind) ==
    IF size > 0 THEN FileHeader + size
    ELSE IF kind = 1 \/ kind = 2 THEN DeletedLen
    ELSE 0

\* BundleFile::set_kind
KindFlags(kind) ==
    CASE kind = 2 -> {"Deleted2"}
      [] kind = 1 -> {"Deleted"}
      [] OTHER -> {}

\* the file placed where the offset stands after the entry was added to it
IndexedFileBehind(e, size, offset) ==
    [ext |-> e.ext, name |-> e.name, size |-> size,
     offset |-> offset + (IF size > 0 THEN 36 + size ELSE 0),
     flags |-> (CASE e.kind = 2 -> {"Deleted2"} [] e.kind = 1 -> {"Deleted"} [] OTHER -> {})]

\* BundleFile::new(name, ext, size, file_offset) and file.set_kind(kind)
IndexedFile(e, size, offset) ==
    [ext |-> e.ext, name |-> e.name, size |-> size, offset |-> offset,
     flags |-> KindFlags(e.kind)]

\* BundleFile::set_bad_offset(true)
BadOffset(f) == [f EXCEPT !.flags = @ \cup {"BadOffset"}]

\* for i in 0..num_files { .. }: stops with an error at the first entry
\* whose offset lies behind the uncompressed size (an offset above u32::MAX
\* lies behind every size, which is a u32)
RECURSIVE WalkTable(_, _, _, _, _)
WalkTable(format, table, size, offset, out) ==
    IF table = <<>> THEN [ok |-> TRUE, offset |-> offset, files |-> out]
    ELSE IF offset > size THEN [ok |-> FALSE, offset |-> offset, files |-> out]
    ELSE LET e == Head(table)
             s == SizeOf(format, e)
         IN  WalkTable(format, Tail(table), size, offset + Advance(s, e.kind),
                       Append(out, IndexedFile(e, s, offset)))

\* a set_size that leaves the size as the index declares it
GrowKeep(size, diff) == size

\* file.set_size(file.size() + diff as u32)
GrowSize(size, diff) == size + diff

\* a recovery that leaves the offsets behind the unreliable entries alone
RecoverNoShift(fs, diff) ==
    LET un == {i \in 1..Len(fs) : Unreliable(with_hash(fs[i].ext))}
        start == CHOOSE i \in un : \A j \in un : i <= j
        end == 1 + CHOOSE i \in un : \A j \in un : j <= i
    IN  [i \in 1..Len(fs) |->
            IF i >= end \/ i < start THEN fs[i]
            ELSE IF start + 1 = end
                 THEN [fs[i] EXCEPT !.size = GrowSize(@, diff)]
                 ELSE BadOffset(fs[i])]

\* the recovery of a format 6 bundle: start is the first and end - 1 the last
\* entry of an unreliable kind
Recover(fs, diff) ==
    LET un == {i \in 1..Len(fs) : Unreliable(with_hash(fs[i].ext))}
        start == CHOOSE i \in un : \A j \in un : i <= j
        end == 1 + CHOOSE i \in un : \A j \in un : j <= i
    IN  [i \in 1..Len(fs) |->
            IF i >= end THEN [fs[i] EXCEPT !.offset = @ + diff]
            ELSE IF i < start THEN fs[i]
            ELSE IF start + 1 = end
                 THEN [fs[i] EXCEPT !.size = GrowSize(@, diff)]
                 ELSE BadOffset(fs[i])]

\* self.files.sort_by(|a, b| (a.ext_hash(), a.name_hash()).cmp(..)): stable
RECURSIVE SortFiles(_)
SortFiles(s) ==
    IF s = <<>> THEN <<>>
    ELSE LET rest == SortFiles(SubSeq(s, 1, Len(s) - 1))
             e == s[Len(s)]
             k == Cardinality({i \in 1..Len(rest) : ~PairLess(e, rest[i])})
         IN  InsertAt(rest, k + 1, e)

\* the files left in the order of the table
sort_none(s) == s

\* self.files.sort_by(..)
sort_by_pair(s) == SortFiles(s)

\* BundleVersion::index on a version whose diff is d0: the files, the diff
\* and the Result it leaves
index_(format, table, size, d0) ==
    LET t == Len(table) * index_size(format)
        w == WalkTable(format, table, size, IndexStart + t, <<>>)
    IN  IF ~w.ok THEN [ok |-> FALSE, files |-> w.files, diff |-> d0]
        ELSE IF w.offset = size
        THEN [ok |-> TRUE, files |-> sort_by_pair(w.files), diff |-> d0]
        ELSE IF size < w.offset
        THEN [ok |-> FALSE, files |-> w.files, diff |-> d0]
        ELSE LET diff == size - w.offset IN
             IF format < SizedFormat
             THEN [ok |-> TRUE, diff |-> diff,
                   files |-> sort_by_pair([i \in 1..Len(w.files) |-> BadOffset(w.files[i])])]
             ELSE IF \A i \in 1..Len(w.files) : ~Unreliable(with_hash(w.files[i].ext))
             THEN [ok |-> FALSE, files |-> w.files, diff |-> diff]
             ELSE [ok |-> TRUE, diff |-> diff,
                   files |-> sort_by_pair(Recover(w.files, diff))]

\* slice::binary_search_by over (ext_hash, name_hash): <<i>> is Ok(i)
RECURSIVE BinarySearch(_, _, _, _)
BinarySearch(fs, key, left, right) ==
    IF left >= right THEN <<>>
    ELSE LET mid == left + (right - left) \div 2 IN
         IF PairLess(fs[mid], key) THEN BinarySearch(fs, key, mid + 1, right)
         ELSE IF PairLess(key, fs[mid]) THEN BinarySearch(fs, key, left, mid)
         ELSE <<mid>>

\* BundleVersion::file
file(fs, ext_hash, name_hash) ==
    LET r == BinarySearch(fs, [ext |-> ext_hash, name |-> name_hash], 1, Len(fs) + 1)
    IN  IF r = <<>> THEN <<>> ELSE <<fs[r[1]]>>

\* what the offset walk of the table adds up to
RECURSIVE TableLen(_, _)
TableLen(format, table) ==
    IF table = <<>> THEN 0
    ELSE Advance(SizeOf(format, Head(table)), Head(table).kind)
         + TableLen(format, Tail(table))

\* uncompressed sizes of the header, relative to the end of the last file:
\* short of it, equal to it, and behind it
Deltas == {-40, 0, 50}

IndexInit ==
    /\ iformat = 0 /\ itable = <<>> /\ isize = 0 /\ ifiles = <<>> /\ idiff = 0
    /\ ires = "none" /\ iquery = <<>> /\ ifound = <<>> /\ iop = "none"

\* version.index(&mut fd, hash, &mut buffer) on a new BundleVersion
IndexBundle ==
    /\ iop = "none"
    /\ \E format \in {5, 6}, table \in Tables, delta \in Deltas :
       LET size == IndexStart + Len(table) * index_size(format)
                   + TableLen(format, table) + delta
           r == index_(format, table, size, idiff)
       IN  /\ iformat' = format
           /\ itable' = table
           /\ isize' = size
           /\ ifiles' = r.files
           /\ idiff' = r.diff
           /\ ires' = IF r.ok THEN "ok" ELSE "err"
    /\ iop' = "index"
    /\ UNCHANGED <<iquery, ifound, notIndexVars>>

\* version.file(ext_hash, name_hash)
FileLookup(ext_hash, name_hash) ==
    /\ iop = "index"
    /\ iquery' = <<ext_hash, name_hash>>
    /\ ifound' = file(ifiles, ext_hash, name_hash)
    /\ iop' = "file"
    /\ UNCHANGED <<iformat, itable, isize, ifiles, idiff, ires, notIndexVars>>

IndexNext ==
    \/ IndexBundle
    \/ \E ext_hash \in ExtHashes, name_hash \in NameHashes :
            FileLookup(ext_hash, name_hash)

InitIndex ==
    /\ IndexInit /\ ReaderIdle /\ BundleIdle /\ LoadIdle /\ CacheIdle
    /\ NameIdle /\ StreamIdle /\ ExtractIdle /\ FileIdle /\ DirIdle /\ ProgIdle /\ GroupIdle

SpecIndex == InitIndex /\ [][IndexNext]_vars

\* index returned Ok after it found the sizes of the table short of the
\* uncompressed size
Recovered == iop \in {"index", "file"} /\ ires = "ok" /\ idiff > 0

\* uncompressed_size - 260 - file_count * entry_size
Expected == isize - IndexStart - Len(itable) * index_size(iformat)

\* 36 + size for each entry with a size, 24 for each entry of size 0
RECURSIVE SumOfSizes(_)
SumOfSizes(fs) ==
    IF fs = <<>> THEN 0
    ELSE (IF Head(fs).size > 0 THEN FileHeader + Head(fs).size ELSE DeletedLen)
         + SumOfSizes(Tail(fs))

\* the same sum as the offset walk takes it: an entry of size 0 counts 24
\* if its kind is 1 or 2 and nothing otherwise
RECURSIVE SumOfAdvances(_)
SumOfAdvances(fs) ==
    IF fs = <<>> THEN 0
    ELSE LET f == Head(fs)
             kind == IF "Deleted2" \in f.flags THEN 2
                     ELSE IF "Deleted" \in f.flags THEN 1 ELSE 0
         IN  Advance(f.size, kind) + SumOfAdvances(Tail(fs))

\* the entries of the table of an unreliable kind
UnreliableEntries == {i \in 1..Len(itable) : Unreliable(with_hash(itable[i].ext))}

\* the recovery grew the size of one entry: format 6 and the first
\* unreliable entry is the last one
GrewOne == iformat >= SizedFormat /\ Cardinality(UnreliableEntries) = 1

GrownEntry == itable[CHOOSE i \in UnreliableEntries : TRUE]

\* C17 (as stated): after index succeeded on a bundle whose sizes do not add
\* up to the uncompressed size, the sum over the entries of 36 + size (24 for
\* an entry of size 0) is uncompressed_size - 260 - file_count * entry_size
C17_DeltaSum == Recovered => SumOfSizes(ifiles) = Expected

\* C17 (amended): the sum, taken as the offset walk takes it, reaches
\* uncompressed_size - 260 - file_count * entry_size only when the recovery
\* grew the single unreliable entry of a format 6 table and that entry had
\* a size; grown from size 0 the entry counts 36 + diff in place of the 24
\* or 0 bytes it had; in every other recovery (format 5, or several entries
\* marked BadOffset) the sizes stay and the sum is short by diff
C17_DeltaSumAmended ==
    Recovered =>
        SumOfAdvances(ifiles) =
            IF GrewOne
            THEN IF GrownEntry.size > 0 THEN Expected
                 ELSE Expected + FileHeader - Advance(0, GrownEntry.kind)
            ELSE Expected - idiff

\* a format 6 table whose single unreliable entry has a size was recovered
C17_Witness == Recovered /\ GrewOne /\ GrownEntry.size > 0 /\ Len(itable) = 2

\* the entries are in ascending order of (ext_hash, name_hash)
FilesSorted(fs) == \A i, j \in 1..Len(fs) : i < j => ~PairLess(fs[j], fs[i])

\* C18: after index succeeded the entries are sorted by (ext_hash,
\* name_hash), and file(ext, name) returns an entry of that pair if the
\* index holds one and None otherwise
C18_SortedLookup ==
    /\ (iop \in {"index", "file"} /\ ires = "ok") => FilesSorted(ifiles)
    /\ (iop = "file" /\ ires = "ok") =>
            IF \E i \in 1..Len(ifiles) :
                    ifiles[i].ext = iquery[1] /\ ifiles[i].name = iquery[2]
            THEN /\ ifound # <<>>
                 /\ ifound[1] \in SeqSet(ifiles)
                 /\ ifound[1].ext = iquery[1] /\ ifound[1].name = iquery[2]
            ELSE ifound = <<>>

\* a table written in descending order was recovered and its last entry
\* looked up
C18_Witness ==
    /\ iop = "file" /\ ires = "ok" /\ idiff > 0 /\ Len(itable) = 2
    /\ PairLess(itable[2], itable[1])
    /\ iquery = <<itable[1].ext, itable[1].name>>
    /\ ifound # <<>>

\* what the entry takes in the bundle as the index declares it
Occupancy(e) ==
    IF e.size > 0 THEN 36 + e.size
    ELSE IF e.kind \in {1, 2} THEN 24
    ELSE 0

RECURSIVE OccupancyBefore(_)
OccupancyBefore(i) ==
    IF i <= 1 THEN 0 ELSE OccupancyBefore(i - 1) + Occupancy(itable[i - 1])

\* 260 + file_count * 24 + the occupancy of the entries before entry i
DeclaredOffset(i) == 260 + Len(itable) * 24 + OccupancyBefore(i)

\* where the declared sizes of a format 6 table end
DeclaredEnd == DeclaredOffset(Len(itable) + 1)

\* the file of entry i with a size, an offset and the BadOffset flag or not
EntryFile(i, size, offset, bad) ==
    [ext |-> itable[i].ext, name |-> itable[i].name, size |-> size, offset |-> offset,
     flags |-> (IF itable[i].kind = 1 THEN {"Deleted"}
                ELSE IF itable[i].kind = 2 THEN {"Deleted2"} ELSE {})
               \cup (IF bad THEN {"BadOffset"} ELSE {})]

\* the files of the index are the files of want, one for one, in some order
SameFiles(want) ==
    /\ Len(ifiles) = Len(want)
    /\ \E p \in [1..Len(want) -> 1..Len(want)] :
          /\ \A i, j \in 1..Len(want) : p[i] = p[j] => i = j
          /\ \A i \in 1..Len(want) : ifiles[p[i]] = want[i]

\* C27: index on a format 6 bundle whose declared sizes add up to the
\* uncompressed size succeeds, leaves diff at 0 and gives entry i the offset
\* 260 + file_count * 24 + the occupancy of the entries before it, with the
\* declared size and no BadOffset flag
C27_ConsistentOffsets ==
    (iop \in {"index", "file"} /\ iformat = 6 /\ isize = DeclaredEnd) =>
        /\ ires = "ok"
        /\ idiff = 0
        /\ SameFiles([i \in 1..Len(itable) |->
                        EntryFile(i, itable[i].size, DeclaredOffset(i), FALSE)])

\* C27 witness: a deleted entry and a file of 5 bytes behind it, at 260 + 48 + 24
C27_Witness ==
    /\ iop = "index" /\ iformat = 6 /\ isize = DeclaredEnd /\ ires = "ok"
    /\ Len(itable) = 2 /\ itable[1].kind = 1 /\ itable[2].size = 5
    /\ \E k \in 1..Len(ifiles) : ifiles[k].offset = 332 /\ ifiles[k].size = 5

\* the first unreliable entry and one past the last
RangeStart == CHOOSE i \in UnreliableEntries : \A j \in UnreliableEntries : i <= j
RangeEnd == 1 + CHOOSE i \in UnreliableEntries : \A j \in UnreliableEntries : j <= i

\* the file of entry i after a recovery by d
RecoveredFile(i, d) ==
    IF i >= RangeEnd THEN EntryFile(i, itable[i].size, DeclaredOffset(i) + d, FALSE)
    ELSE IF i < RangeStart THEN EntryFile(i, itable[i].size, DeclaredOffset(i), FALSE)
    ELSE IF RangeStart + 1 = RangeEnd
         THEN EntryFile(i, itable[i].size + d, DeclaredOffset(i), FALSE)
         ELSE EntryFile(i, itable[i].size, DeclaredOffset(i), TRUE)

ZLIB_CHUNK_SIZE == 2
ALIGNED_READ_SIZE == 16

\* the largest number of chunks of a bundle
MaxChunks == 2

BUNDLE_COMPRESSED_HEADER_SIZE == 12

\* bytes of the length in front of each stored chunk
LenPrefix == 4

\* co + ZLIB_CHUNK_SIZE as u64 + 8 >= *offset + *last
WindowSlack == 8

\* ZLIB_CHUNK_SIZE + ALIGNED_READ_SIZE * 2 of Default for ReadBuffer
SrcLen == ZLIB_CHUNK_SIZE + ALIGNED_READ_SIZE * 2

\* the stored length of a chunk: below ZLIB_CHUNK_SIZE it is deflated, equal
\* to it the chunk is stored as it is
StoredLens == {1, ZLIB_CHUNK_SIZE}

StreamBundles == UNION {[1..n -> StoredLens] : n \in 1..MaxChunks}

Min2(a, b) == IF a < b THEN a ELSE b
Max2(a, b) == IF a < b THEN b ELSE a

\* a bundle file that is not well formed: its last byte is missing ("eof"),
\* the length in front of its last chunk is above ZLIB_CHUNK_SIZE ("len"),
\* or the bytes of its last chunk do not inflate ("zlib")
Faults == {"eof", "len", "zlib"}

\* the bundle file: 12 bytes of header, then each chunk behind its length
RECURSIVE SumStored(_)
SumStored(s) ==
    IF s = <<>> THEN 0 ELSE LenPrefix + Head(s) + SumStored(Tail(s))

FileLen(b) ==
    BUNDLE_COMPRESSED_HEADER_SIZE + SumStored(b)
    - (IF rdfault = "eof" THEN 1 ELSE 0)

\* the u32 in front of chunk i as the file holds it
LenField(b, i) ==
    IF rdfault = "len" /\ i = Len(b) - 1 THEN ZLIB_CHUNK_SIZE + 1 ELSE b[i + 1]

\* the file position of the length of chunk i (chunks count from 0)
PrefixPos(b, i) == BUNDLE_COMPRESSED_HEADER_SIZE + SumStored(SubSeq(b, 1, i))

\* the u32 at source[4..8] of chunk 0: the uncompressed size
HeaderSize(b) == Len(b) * ZLIB_CHUNK_SIZE

\* BundleReader::new and ReadBuffer::default; <<>> is None, an out slot of
\* <<>> holds zeros and one of <<c>> the bytes of chunk c
NewState(ssd) ==
    [chunk_sizes |-> <<>>, version |-> <<>>, size |-> 0, is_ssd |-> ssd,
     out |-> <<<<>>>>, id |-> <<>>, offset |-> 0, last |-> 0,
     start |-> <<>>, end |-> <<>>, io |-> 0, raw |-> 0]

\* the id get_unique_id gave the reader
ReaderId == <<1>>

\* ReadBuffer::reset
reset(rs) == [rs EXCEPT !.offset = 0, !.last = 0, !.start = <<>>, !.end = <<>>]

\* BundleReader::get_offset
RECURSIVE SumSizes(_)
SumSizes(s) ==
    IF s = <<>> THEN 0
    ELSE LenPrefix + (IF Head(s) = 0 THEN ZLIB_CHUNK_SIZE ELSE Head(s))
         + SumSizes(Tail(s))

get_offset(sizes, chunk) ==
    (IF chunk = 0 THEN 0 ELSE BUNDLE_COMPRESSED_HEADER_SIZE)
    + SumSizes(SubSeq(sizes, 1, chunk))

\* while read >= (offset + 4) as u64 { .. }: the lengths the source holds
\* from file position pos up to limit; bytes that are no length are "junk"
RECURSIVE ScanLens(_, _, _, _, _, _)
ScanLens(b, sizes, co_len, chunk_count, pos, limit) ==
    IF limit < pos + LenPrefix THEN [res |-> "ok", sizes |-> sizes]
    ELSE LET at == {i \in 0..(Len(b) - 1) : PrefixPos(b, i) = pos} IN
         IF at = {} THEN [res |-> "junk", sizes |-> sizes]
         ELSE LET len == LenField(b, CHOOSE i \in at : TRUE)
                  size == IF len = ZLIB_CHUNK_SIZE THEN 0 ELSE len
              IN  IF len > ZLIB_CHUNK_SIZE THEN [res |-> "err", sizes |-> sizes]
                  ELSE ScanLens(b,
                                IF chunk_count >= co_len THEN Append(sizes, size)
                                ELSE sizes,
                                co_len, chunk_count + 1, pos + LenPrefix + len,
                                limit)

RECURSIVE read_chunk(_, _, _, _)
RECURSIVE Discover(_, _, _, _)

\* for i in co_len..chunk { ret += self.read_chunk(fd, i, .., false)?; }
Discover(b, rs, i, chunk) ==
    IF i >= chunk THEN [rs |-> rs, res |-> "ok"]
    ELSE LET r == read_chunk(b, rs, i, FALSE) IN
         IF r.res # "ok" THEN [rs |-> r.rs, res |-> r.res]
         ELSE Discover(b, r.rs, i + 1, chunk)

\* let mut size = if use_buffer { .. }: the bytes read_chunk asks for
ReadSize(rs, chunk, co, use_buffer) ==
    IF use_buffer
    THEN IF chunk + 1 < Len(rs.chunk_sizes)
         THEN get_offset(rs.chunk_sizes, chunk + 1) - co
         ELSE SrcLen
    ELSE IF rs.is_ssd
    THEN IF chunk = 0 THEN BUNDLE_COMPRESSED_HEADER_SIZE + LenPrefix
         ELSE LenPrefix
    ELSE SrcLen

\* if *last == 0 || co + ZLIB_CHUNK_SIZE as u64 + 8 >= *offset + *last
\*    || *offset > co: the source does not hold the chunk
Stale(rs, co) ==
    \/ rs.last = 0
    \/ co + ZLIB_CHUNK_SIZE + WindowSlack >= rs.offset + rs.last
    \/ rs.offset > co

\* what fd.read returns at file position co: no more than the file holds
FetchLen(b, rs, chunk, co, use_buffer) ==
    Min2(ReadSize(rs, chunk, co, use_buffer), Max2(FileLen(b) - co, 0))

\* *offset = seek_to; fd.seek(..); fd.read(&mut source[0..size]); *last = read
Fetch(b, rs, chunk, co, use_buffer) ==
    IF Stale(rs, co)
    THEN [rs EXCEPT !.offset = co,
                    !.last = FetchLen(b, rs, chunk, co, use_buffer),
                    !.io = @ + 2,
                    !.raw = @ + FetchLen(b, rs, chunk, co, use_buffer)]
    ELSE rs

\* if chunk == 0 { self.version = ..; self.size = ..; }
WithHeader(b, rs, chunk) ==
    IF chunk = 0
    THEN [rs EXCEPT !.version = <<SizedFormat>>, !.size = HeaderSize(b)]
    ELSE rs

\* read_chunk from let start = (co - *offset) on: the source holds the file
\* from rs.offset to rs.offset + rs.last (end is *last after a read too)
Parse(b, rs, chunk, co, co_len, use_buffer) ==
    LET off == IF chunk = 0 THEN BUNDLE_COMPRESSED_HEADER_SIZE ELSE 0
        avail == rs.last - (co - rs.offset)
        at == {i \in 0..(Len(b) - 1) : PrefixPos(b, i) = co + off}
        len == LenField(b, CHOOSE i \in at : TRUE)
        scan == ScanLens(b, rs.chunk_sizes, co_len, chunk, co + off,
                         rs.offset + rs.last)
    IN  IF rs.offset > co THEN [rs |-> rs, res |-> "err", dec |-> <<>>]
        ELSE IF avail < 0 THEN [rs |-> rs, res |-> "panic", dec |-> <<>>]
        ELSE IF chunk = 0 /\ avail < 2 * LenPrefix
        THEN [rs |-> rs, res |-> "panic", dec |-> <<>>]
        ELSE IF avail < off + LenPrefix
        THEN [rs |-> WithHeader(b, rs, chunk), res |-> "panic", dec |-> <<>>]
        ELSE IF at = {}
        THEN [rs |-> WithHeader(b, rs, chunk), res |-> "junk", dec |-> <<>>]
        ELSE IF len > ZLIB_CHUNK_SIZE
        THEN [rs |-> WithHeader(b, rs, chunk), res |-> "err", dec |-> <<>>]
        ELSE IF use_buffer /\ avail < off + LenPrefix + len
        THEN [rs |-> WithHeader(b, rs, chunk), res |-> "panic", dec |-> <<>>]
        ELSE IF /\ use_buffer /\ len < ZLIB_CHUNK_SIZE
                /\ rdfault = "zlib" /\ chunk = Len(b) - 1
        THEN [rs |-> WithHeader(b, rs, chunk), res |-> "err", dec |-> <<>>]
        ELSE [rs |-> [WithHeader(b, rs, chunk) EXCEPT !.chunk_sizes = scan.sizes],
              res |-> scan.res,
              dec |-> IF use_buffer THEN <<CHOOSE i \in at : TRUE>> ELSE <<>>]

\* read_chunk from let co = self.get_offset(chunk) on
AtOffset(b, rs, chunk, co, use_buffer) ==
    IF co = 0 /\ chunk # 0 THEN [rs |-> rs, res |-> "err", dec |-> <<>>]
    ELSE Parse(b, Fetch(b, rs, chunk, co, use_buffer), chunk, co,
               Len(rs.chunk_sizes), use_buffer)

\* read_chunk behind its loop over the chunks not yet known, which left d;
\* self.chunk_sizes[..chunk] of get_offset panics on a shorter chunk_sizes
Discovered(b, d, chunk, use_buffer) ==
    IF d.res # "ok" THEN [rs |-> d.rs, res |-> d.res, dec |-> <<>>]
    ELSE IF Len(d.rs.chunk_sizes) < chunk
    THEN [rs |-> d.rs, res |-> "panic", dec |-> <<>>]
    ELSE AtOffset(b, d.rs, chunk, get_offset(d.rs.chunk_sizes, chunk),
                  use_buffer)

\* BundleReader::read_chunk: dec is <<c>> when out was filled with chunk c
read_chunk(b, rs0, chunk, use_buffer) ==
    Discovered(b,
               IF Len(rs0.chunk_sizes) < chunk
               THEN Discover(b, rs0, Len(rs0.chunk_sizes), chunk)
               ELSE [rs |-> rs0, res |-> "ok"],
               chunk, use_buffer)

\* while read < to_read as usize
RemainingOrEmpty(nread, to_read) == nread < to_read \/ to_read = 0

Remaining(nread, to_read) == nread < to_read

\* &mut read_buffer.out[count * ZLIB_CHUNK_SIZE..(count + 1) * ZLIB_CHUNK_SIZE]
\* as read_chunk r left it
Filled(r, count) ==
    IF r.dec # <<>> THEN [r.rs EXCEPT !.out[count + 1] = r.dec] ELSE r.rs

\* the body of the loop of read; nread is the local read
RECURSIVE ReadLoop(_, _, _, _, _, _, _)
ReadLoop(b, rs, to_read, nread, chunk, chunk_offset, count) ==
    IF ~Remaining(nread, to_read) THEN [rs |-> rs, res |-> "ok"]
    ELSE
    LET size == IF ZLIB_CHUNK_SIZE > chunk_offset + to_read - nread
                THEN to_read - nread
                ELSE ZLIB_CHUNK_SIZE - chunk_offset
    IN  IF size = 0 \/ size > ZLIB_CHUNK_SIZE \/ to_read < nread + size
        THEN [rs |-> rs, res |-> "err"]
        ELSE IF count = 0 /\ rs.end = <<chunk>>
        THEN IF rs.start # rs.end
             THEN LET from == rs.end[1] - rs.start[1] IN
                  IF from - 1 < 0 \/ Len(rs.out) < from + 1
                  THEN [rs |-> rs, res |-> "panic"]
                  ELSE ReadLoop(b, [rs EXCEPT !.out[1] = rs.out[from + 1]],
                                to_read, nread + size, chunk + 1, 0, count + 1)
             ELSE ReadLoop(b, rs, to_read, nread + size, chunk + 1, 0, count + 1)
        ELSE IF Len(rs.out) < count + 1 THEN [rs |-> rs, res |-> "panic"]
        ELSE
        LET len == IF to_read > ZLIB_CHUNK_SIZE - chunk_offset
                   THEN ZLIB_CHUNK_SIZE - chunk_offset
                   ELSE to_read
        IN  \* r is what read_chunk returned
            LET Continue(r) ==
                    IF r.res # "ok" THEN [rs |-> Filled(r, count), res |-> r.res]
                    ELSE ReadLoop(b, Filled(r, count), to_read,
                                  nread + (IF chunk_offset > 0 THEN len ELSE size),
                                  chunk + 1, 0, count + 1)
            IN  Continue(read_chunk(b, rs, chunk, TRUE))

\* read_buffer.start and read_buffer.end are left alone by an empty range
TouchedIfRead(rs, a, e) ==
    IF a = e THEN rs
    ELSE [rs EXCEPT !.start = <<a \div ZLIB_CHUNK_SIZE>>,
                    !.end = <<IF e % ZLIB_CHUNK_SIZE = 0
                              THEN Max2(e \div ZLIB_CHUNK_SIZE - 1, 0)
                              ELSE e \div ZLIB_CHUNK_SIZE>>]

\* read_buffer.start = Some(..); read_buffer.end = match end % .. { .. }
Touched(rs, a, e) ==
    [rs EXCEPT !.start = <<a \div ZLIB_CHUNK_SIZE>>,
               !.end = <<IF e % ZLIB_CHUNK_SIZE = 0
                         THEN Max2(e \div ZLIB_CHUNK_SIZE - 1, 0)
                         ELSE e \div ZLIB_CHUNK_SIZE>>]

\* byte j of read_buffer.out: <<>> is a zero the buffer was made with,
\* <<c, k>> byte k of chunk c
ByteAt(out, j) ==
    LET slot == out[j \div ZLIB_CHUNK_SIZE + 1] IN
    IF slot = <<>> THEN <<>> ELSE <<slot[1], j % ZLIB_CHUNK_SIZE>>

\* read_buffer.out.resize(chunks * ZLIB_CHUNK_SIZE, 0)
Resized(out, chunks) ==
    [i \in 1..chunks |-> IF i <= Len(out) THEN out[i] ELSE <<>>]

\* read before its loop: the buffer of another reader is reset, and out
\* is made long enough for the range
Prepared(rs, need) ==
    LET rs1 == IF rs.id # ReaderId THEN [reset(rs) EXCEPT !.id = ReaderId]
               ELSE rs
    IN  [rs1 EXCEPT !.io = 0, !.raw = 0,
                    !.out = IF Len(@) * ZLIB_CHUNK_SIZE < need
                            THEN Resized(@, (need + ZLIB_CHUNK_SIZE)
                                                \div ZLIB_CHUNK_SIZE)
                            ELSE @]

\* read behind its loop, which left l
Returned(l, a, e) ==
    IF l.res # "ok" THEN [rs |-> l.rs, res |-> l.res, bytes |-> <<>>]
    ELSE [rs |-> Touched(l.rs, a, e), res |-> "ok",
          bytes |-> [j \in 1..(e - a) |->
                        ByteAt(l.rs.out, (a % ZLIB_CHUNK_SIZE) + j - 1)]]

\* BundleReader::read of the range a..e
read_(b, rs0, a, e) ==
    Returned(ReadLoop(b, Prepared(rs0, e - a + (a % ZLIB_CHUNK_SIZE)), e - a, 0,
                      a \div ZLIB_CHUNK_SIZE, a % ZLIB_CHUNK_SIZE, 0),
             a, e)

\* read(a..a+1), read(a+1..a+2), .., read(e-1..e) one after the other
RECURSIVE ByteWise(_, _, _, _)
ByteWise(b, rs, a, e) ==
    IF a >= e THEN [res |-> "ok", bytes |-> <<>>]
    ELSE LET r == read_(b, rs, a, a + 1) IN
         IF r.res # "ok" THEN [res |-> r.res, bytes |-> <<>>]
         ELSE LET rest == ByteWise(b, r.rs, a + 1, e) IN
              IF rest.res # "ok" THEN rest
              ELSE [res |-> "ok", bytes |-> r.bytes \o rest.bytes]

StreamInit ==
    /\ rdbundle \in StreamBundles
    /\ \E ssd \in BOOLEAN : rdstate = NewState(ssd)
    /\ rdrange = <<>> /\ rdres = [res |-> "none", bytes |-> <<>>]
    /\ rdio = 0 /\ rdsplit = <<>> /\ rdop = "none"
    /\ rdfault \in {"none"} \cup Faults

\* reader.read(&mut fd, &mut buffer, a..e, None) of a range inside the bundle
ReadRange(a, e) ==
    /\ rdop = "none"
    /\ a <= e /\ e <= HeaderSize(rdbundle)
    /\ \E r \in {read_(rdbundle, rdstate, a, e)} :
       /\ rdstate' = [r.rs EXCEPT !.io = 0, !.raw = 0]
       /\ rdres' = [res |-> r.res, bytes |-> r.bytes]
       /\ rdio' = r.rs.io
    /\ rdrange' = <<a, e>>
    /\ rdsplit' = ByteWise(rdbundle, rdstate, a, e)
    /\ rdop' = "read"
    /\ UNCHANGED <<rdbundle, rdfault, notStreamVars>>

\* reader.read(..) of a range that ends behind the uncompressed size
ReadOutside(a, e) ==
    /\ rdop = "none"
    /\ a <= e /\ HeaderSize(rdbundle) < e
    /\ \E r \in {read_(rdbundle, rdstate, a, e)} :
       /\ rdstate' = [r.rs EXCEPT !.io = 0, !.raw = 0]
       /\ rdres' = [res |-> r.res, bytes |-> r.bytes]
       /\ rdio' = r.rs.io
    /\ rdrange' = <<a, e>>
    /\ rdop' = "outside"
    /\ UNCHANGED <<rdbundle, rdsplit, rdfault, notStreamVars>>

\* the caller is done with the slice, which borrows the buffer; a panic
\* ends the thread, and a file that is not well formed is given up
DropSlice ==
    /\ rdop = "read"
    /\ rdres.res # "panic"
    /\ rdfault = "none"
    /\ rdrange' = <<>> /\ rdres' = [res |-> "none", bytes |-> <<>>]
    /\ rdio' = 0 /\ rdsplit' = <<>> /\ rdop' = "none"
    /\ UNCHANGED <<rdbundle, rdstate, rdfault, notStreamVars>>

StreamNext ==
    \/ \E a, e \in 0..(MaxChunks * ZLIB_CHUNK_SIZE) : ReadRange(a, e)
    \/ \E a \in 0..(MaxChunks * ZLIB_CHUNK_SIZE) :
            ReadOutside(a, HeaderSize(rdbundle) + 1)
    \/ DropSlice

InitStream ==
    /\ StreamInit /\ ReaderIdle /\ BundleIdle /\ LoadIdle /\ CacheIdle
    /\ NameIdle /\ IndexIdle /\ ExtractIdle /\ FileIdle /\ DirIdle /\ ProgIdle /\ GroupIdle

SpecStream == InitStream /\ [][StreamNext]_vars

\* C19 (as stated): after any reads through the buffer, read(a..b) returns
\* the bytes that read(a..a+1), .., read(b-1..b) return one after the
\* other, through the same buffer and through a new one
C19_ChunkIndependence ==
    (rdop = "read" /\ rdrange # <<>> /\ rdrange[1] < rdrange[2]) =>
        /\ rdres = rdsplit
        /\ rdres = ByteWise(rdbundle, NewState(rdstate.is_ssd),
                            rdrange[1], rdrange[2])

\* C20: read of an empty range returns an empty slice and calls neither
\* fd.seek nor fd.read
C20_EmptyRead ==
    (rdop = "read" /\ rdrange # <<>> /\ rdrange[1] = rdrange[2]) =>
        rdres = [res |-> "ok", bytes |-> <<>>] /\ rdio = 0

\* an empty range was read inside a chunk the reader has not read yet
C20_Witness ==
    /\ rdop = "read" /\ rdrange # <<>> /\ rdrange[1] = rdrange[2]
    /\ rdrange[1] % ZLIB_CHUNK_SIZE # 0
    /\ rdstate.chunk_sizes # <<>>
    /\ \A i \in 1..Len(rdstate.out) :
            rdstate.out[i] # <<rdrange[1] \div ZLIB_CHUNK_SIZE>>

\* the last call had to fail: its range ends behind the bundle, or it reads
\* the last chunk of a file that is not well formed
MustFail ==
    \/ rdop = "outside" /\ rdrange[1] < rdrange[2]
    \/ /\ rdop = "read" /\ rdfault \in Faults /\ rdrange[1] < rdrange[2]
       /\ rdrange[2] > HeaderSize(rdbundle) - ZLIB_CHUNK_SIZE
       /\ rdfault = "zlib" => rdbundle[Len(rdbundle)] < ZLIB_CHUNK_SIZE

\* C21: no call of read panics, and a call whose range ends behind the
\* uncompressed size, or that meets the end of the file, a chunk length
\* above ZLIB_CHUNK_SIZE or bytes that do not inflate, returns Err
C21_FailuresAreErrors ==
    rdop \in {"read", "outside"} =>
        /\ rdres.res # "panic"
        /\ MustFail => rdres.res = "err"

\* ------------------------------------------------------------------------
\* Index::index_files_mt and Index::extract_files_mt (core/reader/mod.rs)
\* ------------------------------------------------------------------------

\* bundles one call of index_files_mt can find new in the directory
MaxQueued == 2

QueuedIds == 1..MaxQueued

\* ext_hash of a matched file: lua, strings, a type FileKind does not list,
\* wwise_dep and texture
MatchedExts == {1, 2, 3, 4, 5}

\* name_hash of a matched file
MatchedNames == {11, 12}

\* matched files; magic tells whether the bytes behind the file header are
\* what the decoder of the type looks for
MatchedFiles == [ext : MatchedExts, name : MatchedNames, magic : BOOLEAN]

None == <<>>

Some(x) == <<x>>

\* a string, kept as its murmur hash, and the 16 hex digits of a hash
Str(hash) == [kind |-> "str", of |-> hash]

\* write!(buffer, "{:016x}", hash)
Hex16(hash) == [kind |-> "hex", of |-> hash]

\* the hash of "dds", no ext_hash of a matched file
DdsExt == 6

\* the hash of the path in the debug information of a lua chunk
LuaPath(f) == f.name + 10

\* KeyMap::get_key
get_key(keys, hash) == IF hash \in keys THEN Some(Str(hash)) ELSE None

\* can_file_self_name
can_file_self_name(ext) == with_hash(ext) \in {"lua", "wwise_dep"}

\* FileReader::path of the reader get_file_interface picks: (name, ext)
path(f) ==
    CASE with_hash(f.ext) = "lua" ->
            IF f.magic THEN <<Some(Str(LuaPath(f))), Some(Str(f.ext))>> ELSE <<None, None>>
      [] with_hash(f.ext) = "wwise_dep" ->
            IF f.magic THEN <<Some(Str(f.name)), Some(Str(f.ext))>>
            ELSE <<None, Some(Str(f.ext))>>
      [] with_hash(f.ext) = "texture" ->
            IF f.magic THEN <<None, Some(Str(DdsExt))>> ELSE <<None, Some(Str(f.ext))>>
      [] OTHER -> <<None, None>>

\* let name = match name_key { .. }
ResolveName(name_key, self_name, fallback, hash) ==
    IF name_key # None THEN name_key
    ELSE IF self_name # None THEN self_name
    ELSE IF fallback THEN Some(Hex16(hash))
    ELSE None

\* the key table asked before the decoder
ResolveExtKeyFirst(self_ext, ext_key, fallback, hash) ==
    IF ext_key # None THEN ext_key
    ELSE IF self_ext # None THEN self_ext
    ELSE IF fallback THEN Some(Hex16(hash))
    ELSE None

\* let ext = match self_ext { .. }
ResolveExt(self_ext, ext_key, fallback, hash) ==
    IF self_ext # None THEN self_ext
    ELSE IF ext_key # None THEN ext_key
    ELSE IF fallback THEN Some(Hex16(hash))
    ELSE None

\* if ext_key.is_some() && (hash_fallback || name_key.is_some() || can_file_self_name(*ext_hash))
Reads(ext_key, name_key, fallback, ext) ==
    /\ ext_key # None
    /\ (fallback \/ name_key # None \/ can_file_self_name(ext))

Skipped == [did |-> "skip", name |-> None, ext |-> None]

\* continue where a name or an extension is missing, else the file is
\* written to <out_dir>/<name>.<ext>
Named(name, ext) ==
    IF name = None \/ ext = None THEN Skipped
    ELSE [did |-> "write", name |-> name, ext |-> ext]

\* the body of for (ext_hash, hash) in &files with out_dir given
ExtractOne(keys, fallback, f) ==
    IF Reads(get_key(keys, f.ext), get_key(keys, f.name), fallback, f.ext)
    THEN Named(ResolveName(get_key(keys, f.name), path(f)[1], fallback, f.name),
               ResolveExt(path(f)[2], get_key(keys, f.ext), fallback, f.name))
    ELSE Skipped

\* every worker: 1..num_threads
WorkerIds(n) == 1..n

\* num_threads = 1 however many were asked for
ForcedOne(ssd, n) == 1

\* if !self.is_ssd { num_threads = 1; }
Scheduled(ssd, n) == IF ~ssd THEN 1 ELSE n

\* Reader::new(false), open_bundles and self.is_ssd = reader.is_ssd()
ProbedSsd(p) == IF p = "unknown" THEN FALSE ELSE p = "ssd"

\* Index::new(dir), the key table loaded and the flags of the command line
ExtractInit ==
    /\ xprobe \in {"ssd", "hdd", "unknown"}
    /\ xssd = FALSE
    /\ xthreads \in 1..MaxThreads
    /\ xworkers = 0
    /\ xqueue = {} /\ xbad = {} /\ xalive = {} /\ xbundles = {} /\ xerr = {}
    /\ xkeys \in SUBSET {1, 3, 5, 11}
    /\ xfallback \in BOOLEAN
    /\ xfile = <<>> /\ xout = <<>>
    /\ xpc = "idle"

\* index_files_mt up to the spawn of the workers: find_and_check_bundles
\* found the bundles of found new or changed, index returns Err on those of bad
IndexSpawn ==
    /\ xpc = "idle"
    /\ \E found \in SUBSET (QueuedIds \ xbundles) : \E bad \in SUBSET found :
           /\ found # {}
           /\ xqueue' = found
           /\ xbad' = bad
    /\ xalive' = WorkerIds(xthreads)
    /\ xpc' = "index"
    /\ UNCHANGED <<xprobe, xssd, xthreads, xworkers, xbundles, xerr, xkeys, xfallback,
                   xfile, xout, notExtractVars>>

\* if files.is_empty() { return Ok(()); }
IndexNothing ==
    /\ xpc = "idle"
    /\ xpc' = "indexed"
    /\ UNCHANGED <<xprobe, xssd, xthreads, xworkers, xqueue, xbad, xalive, xbundles, xerr,
                   xkeys, xfallback, xfile, xout, notExtractVars>>

\* one turn of while let Some(..) = reader.pop(): version.index(..)
\* .unwrap_or_else(|e| panic!(..)), then the insertion into bundles
IndexWorker(w, b) ==
    /\ xpc = "index"
    /\ w \in xalive
    /\ b \in xqueue
    /\ xqueue' = xqueue \ {b}
    /\ IF b \in xbad
       THEN /\ xalive' = xalive \ {w}
            /\ xerr' = xerr \cup {b}
            /\ UNCHANGED xbundles
       ELSE /\ xbundles' = xbundles \cup {b}
            /\ UNCHANGED <<xalive, xerr>>
    /\ UNCHANGED <<xprobe, xssd, xthreads, xworkers, xbad, xkeys, xfallback,
                   xfile, xout, xpc, notExtractVars>>

\* for thread in threads { thread.join().unwrap(); } and }).unwrap(): a
\* worker that panicked makes index_files_mt panic
IndexJoin ==
    /\ xpc = "index"
    /\ xqueue = {} \/ xalive = {}
    /\ IF xalive = WorkerIds(xthreads)
       THEN xssd' = ProbedSsd(xprobe) /\ xpc' = "indexed"
       ELSE xpc' = "panic" /\ UNCHANGED xssd
    /\ UNCHANGED <<xprobe, xthreads, xworkers, xqueue, xbad, xalive, xbundles, xerr,
                   xkeys, xfallback, xfile, xout, notExtractVars>>

\* extract_files_mt up to the spawn of the workers; with no bundle that
\* holds a match it returns before it spawns any
ExtractStart ==
    /\ xpc = "indexed"
    /\ IF xbundles = {}
       THEN xworkers' = 0 /\ xpc' = "idle"
       ELSE xworkers' = Scheduled(xssd, xthreads) /\ xpc' = "extract"
    /\ UNCHANGED <<xprobe, xssd, xthreads, xqueue, xbad, xalive, xbundles, xerr,
                   xkeys, xfallback, xfile, xout, notExtractVars>>

\* a worker at one matched file
ExtractFile(f) ==
    /\ xpc = "extract"
    /\ xfile = <<>>
    /\ xfile' = f
    /\ xout' = ExtractOne(xkeys, xfallback, f)
    /\ UNCHANGED <<xprobe, xssd, xthreads, xworkers, xqueue, xbad, xalive, xbundles, xerr,
                   xkeys, xfallback, xpc, notExtractVars>>

\* the scope of extract_files_mt ends; a later run finds more bundles
ExtractJoin ==
    /\ xpc = "extract"
    /\ xfile # <<>>
    /\ xpc' = "idle"
    /\ xfile' = <<>> /\ xout' = <<>>
    /\ UNCHANGED <<xprobe, xssd, xthreads, xworkers, xqueue, xbad, xalive, xbundles, xerr,
                   xkeys, xfallback, notExtractVars>>

ExtractNext ==
    \/ IndexSpawn
    \/ IndexNothing
    \/ \E w \in WorkerIds(MaxThreads), b \in QueuedIds : IndexWorker(w, b)
    \/ IndexJoin
    \/ ExtractStart
    \/ \E f \in MatchedFiles : ExtractFile(f)
    \/ ExtractJoin

InitExtract ==
    /\ ExtractInit /\ ReaderIdle /\ BundleIdle /\ LoadIdle /\ CacheIdle
    /\ NameIdle /\ IndexIdle /\ StreamIdle /\ FileIdle /\ DirIdle /\ ProgIdle /\ GroupIdle

SpecExtract == InitExtract /\ [][ExtractNext]_vars

\* C22: when the workers of an extraction are spawned and the bundle
\* directory is on an HDD there is one worker, and when it is on an SSD
\* there are as many as the caller asked for
C22_WorkersByStorage ==
    xpc = "extract" =>
        /\ xprobe = "hdd" => xworkers = 1
        /\ xprobe = "ssd" => xworkers = xthreads

\* C22 witness: two threads asked for on an HDD, one worker
C22_Witness ==
    xpc = "extract" /\ xprobe = "hdd" /\ xthreads = 2 /\ xworkers = 1

\* the extension by the chain of the name: the key table, then the decoder,
\* then the 16 hex digits of ext_hash
ExtAsName(ext_key, self_ext, fallback, ext_hash) ==
    ResolveName(ext_key, self_ext, fallback, ext_hash)

\* C23 (as stated): every matched file is written under the name the chain
\* gives (key table, decoder, 16 hex digits under hash-fallback) and the
\* extension the same chain gives on ext_hash, and is skipped only where a
\* chain ends
C23_FallbackChain ==
    xfile # <<>> =>
        xout = Named(ResolveName(get_key(xkeys, xfile.name), path(xfile)[1],
                                 xfallback, xfile.name),
                     ExtAsName(get_key(xkeys, xfile.ext), path(xfile)[2],
                               xfallback, xfile.ext))

\* the name the chain gives: key table, decoder, hex digits, nothing
ChainName ==
    IF xfile.name \in xkeys THEN Some(Str(xfile.name))
    ELSE IF path(xfile)[1] # None THEN path(xfile)[1]
    ELSE IF xfallback THEN Some(Hex16(xfile.name))
    ELSE None

\* C23 (amended): a matched file whose ext_hash the key table does not know
\* is skipped; any other is skipped only if the chain of the name ends, and
\* is else written under that name with the extension the decoder reports
\* or, if it reports none, the key table's string for ext_hash
C23_FallbackChainAmended ==
    xfile # <<>> =>
        IF xfile.ext \notin xkeys \/ ChainName = None
        THEN xout.did = "skip"
        ELSE /\ xout.did = "write"
             /\ xout.name = ChainName
             /\ xout.ext = IF path(xfile)[2] # None THEN path(xfile)[2]
                           ELSE Some(Str(xfile.ext))

\* C23 witness: a texture of DDS content with a known extension and an
\* unknown name is written under the hex digits of its name hash as .dds
C23_Witness ==
    /\ xfile # <<>> /\ xfallback /\ with_hash(xfile.ext) = "texture" /\ xfile.magic
    /\ xfile.ext \in xkeys /\ xfile.name \notin xkeys
    /\ xout = [did |-> "write", name |-> Some(Hex16(xfile.name)), ext |-> Some(Str(DdsExt))]

\* C24: when index_files_mt is over and index failed on some queued
\* bundles, it has returned, every queued bundle was taken, the failed ones
\* were reported and are not in the registry and the others are
C24_BadBundleSkipped ==
    (xpc \in {"indexed", "panic"} /\ xbad # {}) =>
        /\ xpc = "indexed"
        /\ xqueue = {}
        /\ xerr = xbad
        /\ xbundles \cap xbad = {}

\* ------------------------------------------------------------------------
\* BundleVersion::read_file (stingray/src/bundle.rs); BundleReader::read is
\* taken by what it returns, the bytes of a range of the uncompressed stream
\* ------------------------------------------------------------------------

\* the most files of a bundle and the most calls of read_file on it
MaxPhys == 2
MaxReads == 2

\* the bytes of ext_hash and name_hash at the head of a file
PrefixLen == 16

\* the name hash a damaged header carries in place of name, the name of no
\* file
CorruptName(name) == name + Cardinality(NameHashes)

\* lua, strings, an unlisted type and texture
PhysExts == {1, 2, 3, 5}

\* a file in the stream: its hashes, the size the index declares for it
\* (format 6) and how many bytes more it really has
PhysEntries == [ext : PhysExts, name : NameHashes, size : {5}, extra : {0, 7}]

\* the bundles: no two files of one bundle share (ext_hash, name_hash)
PhysTables ==
    {t \in UNION {[1..n -> PhysEntries] : n \in 1..MaxPhys} :
        \A i, j \in 1..Len(t) : (t[i].ext = t[j].ext /\ t[i].name = t[j].name) => i = j}

\* the index table of the bundle
TableOf(layout) ==
    [i \in 1..Len(layout) |->
        [ext |-> layout[i].ext, name |-> layout[i].name, kind |-> 0, size |-> layout[i].size]]

\* where file k starts in the stream (k = Len + 1: where the stream ends)
RECURSIVE PhysStart(_, _, _)
PhysStart(format, layout, k) ==
    IF k <= 1 THEN IndexStart + Len(layout) * index_size(format)
    ELSE PhysStart(format, layout, k - 1) + FileHeader + layout[k - 1].size + layout[k - 1].extra

\* the 16 bytes at p are ext_hash and name_hash: p is where a file with
\* these hashes in its header starts
HeaderAt(p, ext_hash, name_hash) ==
    \E k \in 1..Len(fphys) :
        /\ PhysStart(fformat, fphys, k) = p
        /\ fphys[k].ext = ext_hash
        /\ (IF k = fcorrupt THEN CorruptName(fphys[k].name) ELSE fphys[k].name) = name_hash

\* the places from lo to hi behind offset where such a header starts
Hits(offset, ext_hash, name_hash, lo, hi) ==
    {o \in lo..hi : HeaderAt(offset + o, ext_hash, name_hash)}

IsBad(f) == "BadOffset" \in f.flags

\* let mut size = ..; let mut max_size = ..; max_size -= file.offset();
\* if size > max_size { size = max_size; }: -1 where the subtraction panics
ScanWindow(f, next, diff, usize, checked) ==
    LET size == FileHeader + f.size + diff + PrefixLen
        cap == IF next # <<>> /\ ~IsBad(next[1]) THEN next[1].offset + PrefixLen ELSE usize
    IN  IF cap < f.offset THEN (IF checked THEN -1 ELSE size)
        ELSE Min2(size, cap - f.offset)

\* while start < size - 16 { .. start += 1; }
ForwardScan(f, size) ==
    LET hits == Hits(f.offset, f.ext, f.name, 0, size - PrefixLen - 1)
    IN  IF hits = {} THEN size - PrefixLen
        ELSE CHOOSE o \in hits : \A q \in hits : o <= q

\* let mut offset = size - 16; loop { .. offset -= 1; }: -1 for the Err
BackwardScan(f, next, size) ==
    IF next = <<>> THEN size - PrefixLen
    ELSE LET hits == Hits(f.offset, next[1].ext, next[1].name, 0, size - PrefixLen)
         IN  IF hits = {} THEN -1
             ELSE CHOOSE o \in hits : \A q \in hits : q <= o

\* file.set_offset(..); file.set_size(..); file.set_bad_offset(false);
SetResolved(f, start, end) ==
    [f EXCEPT !.offset = f.offset + start, !.size = end - start,
              !.flags = @ \ {"BadOffset"}]

Result(res, from, to, fs) == [res |-> res, from |-> from, to |-> to, files |-> fs]

\* a header check that returns Err in place of the assertion
HeaderErr(fs, i, from, to) ==
    IF to - from < FileHeader THEN Result("err", from, to, fs)
    ELSE IF ~HeaderAt(from, fs[i].ext, fs[i].name) THEN Result("err", from, to, fs)
    ELSE Result("ok", from, to, fs)

\* if out.len() < 36 { return Err(..) } and assert!(ext_hash == file.ext_hash()
\* && name_hash == file.name_hash(), ..)
HeaderCheck(fs, i, from, to) ==
    IF to - from < FileHeader THEN Result("err", from, to, fs)
    ELSE IF ~HeaderAt(from, fs[i].ext, fs[i].name) THEN Result("panic", from, to, fs)
    ELSE Result("ok", from, to, fs)

\* BundleReader::read of a range that ends behind the stream panics in
\* read_chunk, unless the range ends in the room the last chunk leaves in
\* the buffer: then it returns what the buffer holds there
Overrun(end, usize) == end > usize /\ ~fslack

\* reader.read(fd, buffer, file_offset..file_offset + size, None)? for a
\* file that is not flagged
ReadDirect(fs, i, usize) ==
    IF Overrun(fs[i].offset + FileHeader + fs[i].size, usize)
    THEN Result("panic", 0, 0, fs)
    ELSE HeaderCheck(fs, i, fs[i].offset, fs[i].offset + FileHeader + fs[i].size)

\* the scans over the window of size bytes and &scrap[start..end]
Scanned(fs, i, size, start, end) ==
    IF end < 0 THEN Result("err", 0, 0, fs)
    ELSE IF end < start THEN Result("panic", 0, 0, fs)
    ELSE HeaderCheck([fs EXCEPT ![i] = SetResolved(fs[i], start, end)], i,
                     fs[i].offset + start, fs[i].offset + end)

\* the branch of a flagged file with diff > 0
ResolveBad(fs, i, next, size, usize) ==
    IF size < PrefixLen \/ Overrun(fs[i].offset + size, usize) THEN Result("panic", 0, 0, fs)
    ELSE Scanned(fs, i, size, ForwardScan(fs[i], size), BackwardScan(fs[i], next, size))

\* read_file with the index i of the file
ReadAt(fs, diff, usize, checked, i, next) ==
    IF diff > 0
    THEN IF IsBad(fs[i])
         THEN ResolveBad(fs, i, next, ScanWindow(fs[i], next, diff, usize, checked), usize)
         ELSE ReadDirect(fs, i, usize)
    ELSE IF IsBad(fs[i]) THEN Result("err", 0, 0, fs)
    ELSE IF fs[i].offset + FileHeader + fs[i].size > usize THEN Result("err", 0, 0, fs)
    ELSE ReadDirect(fs, i, usize)

\* let i = self.get_file_index(ext_hash, file_hash).ok_or_else(..)?
Found(fs, diff, usize, checked, r) ==
    IF r = <<>> THEN Result("err", 0, 0, fs)
    ELSE ReadAt(fs, diff, usize, checked, r[1],
                IF r[1] < Len(fs) THEN <<fs[r[1] + 1]>> ELSE <<>>)

\* BundleVersion::read_file
read_file(fs, diff, usize, checked, ext_hash, file_hash) ==
    Found(fs, diff, usize, checked,
          BinarySearch(fs, [ext |-> ext_hash, name |-> file_hash], 1, Len(fs) + 1))

FileInit ==
    /\ fformat = 0 /\ fphys = <<>> /\ fcorrupt = 0 /\ fchecked \in BOOLEAN
    /\ fslack \in BOOLEAN /\ fusize = 0
    /\ ffiles = <<>> /\ fdiff = 0 /\ fprev = <<>> /\ fquery = <<>> /\ fres = <<>>
    /\ freads = 0 /\ flast = <<>> /\ freloaded = FALSE /\ fop = "none"

\* BundleVersion::new and index on a bundle of the directory; a bundle
\* whose index fails is not kept
OpenVersion ==
    /\ fop = "none"
    /\ \E format \in {5, 6}, layout \in PhysTables :
         \E corrupt \in 0..Len(layout) :
           \E r \in {index_(format, TableOf(layout),
                            PhysStart(format, layout, Len(layout) + 1), 0)} :
              /\ r.ok
              /\ fformat' = format
              /\ fphys' = layout
              /\ fcorrupt' = corrupt
              /\ fusize' = PhysStart(format, layout, Len(layout) + 1)
              /\ ffiles' = r.files
              /\ fdiff' = r.diff
    /\ fop' = "open"
    /\ UNCHANGED <<fchecked, fslack, fprev, fquery, fres, freads, flast, freloaded, notFileVars>>

\* version.read_file(&mut fd, bundle_hash, ext_hash, file_hash, &mut buffer)
ReadFile(ext_hash, file_hash) ==
    /\ fop \in {"open", "read"}
    /\ freads < MaxReads
    /\ fres # <<>> => fres.res # "panic"
    /\ \E r \in {read_file(ffiles, fdiff, fusize, fchecked, ext_hash, file_hash)} :
          /\ ffiles' = r.files
          /\ fres' = [res |-> r.res, from |-> r.from, to |-> r.to]
    /\ fprev' = ffiles
    /\ fquery' = <<ext_hash, file_hash>>
    /\ freads' = freads + 1
    /\ flast' = IF fop = "read"
                THEN [query |-> fquery, res |-> fres, resolved |-> ffiles # fprev]
                ELSE <<>>
    /\ fop' = "read"
    /\ UNCHANGED <<fformat, fphys, fcorrupt, fchecked, fslack, fusize, fdiff, freloaded,
                   notFileVars>>

\* the bits of BundleFile::flags
FlagBit(flag) ==
    CASE flag = "BadOffset" -> 1 [] flag = "Deleted" -> 2 [] flag = "Deleted2" -> 4
      [] OTHER -> 0

RECURSIVE SumBits(_)
SumBits(flags) ==
    IF flags = {} THEN 0
    ELSE LET flag == CHOOSE x \in flags : TRUE
         IN  FlagBit(flag) + SumBits(flags \ {flag})

\* bincode::serialize of a BundleFile: hash, ext, size, offset, flags
SerializeFile(f) == <<f.name, f.ext, f.size, f.offset, SumBits(f.flags)>>

\* bincode::deserialize of a BundleFile
DeserializeFile(b) ==
    [ext |-> b[2], name |-> b[1], size |-> b[3], offset |-> b[4],
     flags |-> {flag \in {"Deleted", "Deleted2", "BadOffset"} :
                   (b[5] \div FlagBit(flag)) % 2 = 1}]

\* save_reader when the run ends and load_reader when the next one starts:
\* the version comes back as bincode wrote it
SaveLoad ==
    /\ fop = "read"
    /\ ~freloaded
    /\ fres.res # "panic"
    /\ ffiles' = [i \in 1..Len(ffiles) |-> DeserializeFile(SerializeFile(ffiles[i]))]
    /\ freloaded' = TRUE
    /\ UNCHANGED <<fformat, fphys, fcorrupt, fchecked, fslack, fusize, fdiff, fprev, fquery,
                   fres, freads, flast, fop, notFileVars>>

FileNext ==
    \/ OpenVersion
    \/ SaveLoad
    \/ \E ext_hash \in PhysExts, file_hash \in NameHashes : ReadFile(ext_hash, file_hash)

InitFile ==
    /\ FileInit /\ ReaderIdle /\ BundleIdle /\ LoadIdle /\ CacheIdle
    /\ NameIdle /\ IndexIdle /\ StreamIdle /\ ExtractIdle /\ DirIdle /\ ProgIdle /\ GroupIdle

SpecFile == InitFile /\ [][FileNext]_vars

\* the last call found the file in the index
Called == fop = "read" /\ BinarySearch(fprev, [ext |-> fquery[1], name |-> fquery[2]],
                                       1, Len(fprev) + 1) # <<>>

\* the file of the last call as the index held it before the call
Asked == fprev[BinarySearch(fprev, [ext |-> fquery[1], name |-> fquery[2]],
                            1, Len(fprev) + 1)[1]]

\* C25: no call of read_file panics, and a call returns Ok only with bytes
\* of the stream that start with the ext_hash and name_hash asked for
C25_ReadFileNoPanic ==
    fop = "read" =>
        /\ fres.res # "panic"
        /\ fres.res = "ok" =>
              /\ fres.to <= fusize
              /\ HeaderAt(fres.from, fquery[1], fquery[2])

\* the entry behind the file of the last call in the index before the call
AskedNext ==
    LET i == BinarySearch(fprev, [ext |-> fquery[1], name |-> fquery[2]],
                          1, Len(fprev) + 1)[1]
    IN  IF i < Len(fprev) THEN <<fprev[i + 1]>> ELSE <<>>

\* the length of the window the last call scanned
AskedWindow == ScanWindow(Asked, AskedNext, fdiff, fusize, fchecked)

\* the last call took the resolve path and read a window
Resolving == Called /\ fdiff > 0 /\ IsBad(Asked) /\ AskedWindow >= PrefixLen

\* the window does not hold the header of the file, or not that of the next
OwnMissing == Hits(Asked.offset, Asked.ext, Asked.name, 0, AskedWindow - PrefixLen - 1) = {}
NextMissing ==
    /\ AskedNext # <<>>
    /\ Hits(Asked.offset, AskedNext[1].ext, AskedNext[1].name, 0, AskedWindow - PrefixLen) = {}

\* C26: a call on the resolve path whose window lacks the header of the
\* file or the header of the next file returns Err and leaves the offset,
\* the size and the flag of the file as they were
C26_MissingMarkerIsError ==
    (Resolving /\ (OwnMissing \/ NextMissing)) =>
        /\ fres.res = "err"
        /\ ffiles = fprev

\* where the file of the last call lies among the files of the stream
AskedPhys == CHOOSE k \in 1..Len(fphys) :
                 fphys[k].ext = fquery[1] /\ fphys[k].name = fquery[2]

\* the headers are intact and only files of an unreliable type, or of a
\* format that declares no sizes, are longer than declared
WellFormed ==
    /\ fcorrupt = 0
    /\ \A k \in 1..Len(fphys) :
          fphys[k].extra > 0 => (fformat < 6 \/ Unreliable(with_hash(fphys[k].ext)))

\* the last call returned the bytes of the file asked for, all of them and
\* no other
ExactBytes ==
    /\ fres.res = "ok"
    /\ fres.from = PhysStart(fformat, fphys, AskedPhys)
    /\ fres.to = PhysStart(fformat, fphys, AskedPhys + 1)

\* C29: index flags every file of a format 5 bundle BadOffset when the
\* uncompressed size lies behind the offset walk, and the first read_file
\* of any of its files returns the bytes of that file and records where it
\* starts
C29_FormatFiveResolved ==
    /\ (fop = "open" /\ fformat = 5 /\ fdiff > 0) =>
            \A i \in 1..Len(ffiles) : IsBad(ffiles[i])
    /\ (Called /\ fformat = 5 /\ fdiff > 0 /\ WellFormed /\ freads = 1) =>
            /\ ExactBytes
            /\ \E i \in 1..Len(ffiles) :
                  /\ ffiles[i].ext = fquery[1] /\ ffiles[i].name = fquery[2]
                  /\ ffiles[i].offset = PhysStart(fformat, fphys, AskedPhys)
                  /\ ~IsBad(ffiles[i])

\* C30: a call on a flagged file with diff > 0 that another file follows in
\* the stream returns the bytes from the header of the file up to the
\* header of the file that follows it, whatever the order of the index
C30_UpToNextPhysical ==
    (Called /\ fdiff > 0 /\ IsBad(Asked) /\ WellFormed /\ freads = 1
            /\ AskedPhys < Len(fphys)) => ExactBytes

\* C31: when read_file has resolved a flagged file and returned its bytes,
\* the next read_file of the same file, in the same run or after the index
\* went through the index file, returns the same bytes
C31_ReadFileRepeatable ==
    (fop = "read" /\ flast # <<>> /\ flast.query = fquery /\ flast.resolved
                  /\ flast.res.res = "ok") =>
        fres = flast.res

\* BundleVersion::files: self.files.iter().filter(|file| file.size() > 0)
version_files(fs) == SelectSeq(fs, LAMBDA f : f.size > 0)

\* the entries of the index table that are files, not deletions
TableFiles == {i \in 1..Len(itable) : itable[i].kind = 0}

\* C40: every entry of the index table of a format 5 bundle that is not a
\* deletion, the stream holding bytes behind the table, is among
\* BundleVersion::files and among the active files of a Bundle that holds
\* the version
C40_FormatFiveFilesActive ==
    (iop = "index" /\ ires = "ok" /\ iformat < SizedFormat /\ idiff > 0) =>
        \A i \in TableFiles :
            /\ \E k \in 1..Len(version_files(ifiles)) :
                  /\ version_files(ifiles)[k].ext = itable[i].ext
                  /\ version_files(ifiles)[k].name = itable[i].name
            /\ \E k \in 1..Len(active_files(<<[patch |-> 0, files |-> ifiles]>>)) :
                  /\ active_files(<<[patch |-> 0, files |-> ifiles]>>)[k].file.ext = itable[i].ext
                  /\ active_files(<<[patch |-> 0, files |-> ifiles]>>)[k].file.name = itable[i].name

\* the bytes a..e of the uncompressed stream
StreamBytes(a, e) ==
    [j \in 1..(e - a) |->
        <<(a + j - 1) \div ZLIB_CHUNK_SIZE, (a + j - 1) % ZLIB_CHUNK_SIZE>>]

\* the last call read an empty range of a well-formed bundle
AfterEmptyRead ==
    /\ rdop = "read" /\ rdrange # <<>> /\ rdrange[1] = rdrange[2]
    /\ rdres.res = "ok" /\ rdfault = "none"

\* C34: after a read of an empty range, a read of any non-empty range of
\* the bundle through the same buffer returns the bytes of the stream
C34_EmptyReadKeepsBuffer ==
    AfterEmptyRead =>
        \A a, e \in 0..HeaderSize(rdbundle) :
            a < e => read_(rdbundle, rdstate, a, e).bytes = StreamBytes(a, e)

\* the step is main saving the Index of a re-validation when the run ends
SavesUpdate == phase = "loaded" /\ mode = "update" /\ phase' = "idle" /\ cache' = index

\* C32: when the Index of a re-validation has been saved, the fingerprint
\* in the cache file is that of bundle_database.data as it is, so that the
\* next load_index on the unchanged directory accepts the cache verbatim
C32_FingerprintRefreshed ==
    [][SavesUpdate => ~(cache'[1].hash # hash_bundle_database(db'))]_vars

\* the (hash, patch) of the bundle files the directory holds
PresentKeys == {get_bundle_hash_patch(n) : n \in PresentNames}

\* the step is the scan of a load_index run
Scans == phase = "idle" /\ runs' = runs + 1 /\ scanned'

\* C37: over any runs of load_index on a directory that changes between
\* them, find_and_check_bundles does not panic, and when a run has loaded
\* the Index every key of the timestamp map has a Bundle of its hash in the
\* registry and, if the run scanned, the keys are those of the bundle files
\* the directory holds
C37_TimestampsInSync ==
    /\ [](phase = "loaded" =>
            /\ \A key \in DOMAIN index[1].timestamps :
                  SearchHash(index[1].bundles, key[1]).ok
            /\ scanned => DOMAIN index[1].timestamps = PresentKeys)
    /\ [][Scans => index' # <<>>]_vars

\* C37 witness: a re-validation has loaded an Index after a bundle file
\* was deleted: its key left the timestamp map, and its Bundle stays in
\* the registry without a version
C37_Witness ==
    /\ phase = "loaded" /\ mode = "update" /\ cache # <<>>
    /\ DOMAIN index[1].timestamps # {}
    /\ \E key \in DOMAIN cache[1].timestamps : key \notin DOMAIN index[1].timestamps
    /\ \E i \in 1..Len(index[1].bundles) : index[1].bundles[i].versions = <<>>

\* ------------------------------------------------------------------------
\* load_index with the directory as an argument (core/reader/mod.rs); the
\* re-validation index_files_with_progress does is taken by what it leaves:
\* the registry holds the bundles of the directory of the Index
\* ------------------------------------------------------------------------
\* the bundle directories main can be pointed at with --dir
Dirs == {"a", "b"}

\* Index::new(dir)
NewIndexOf(dir) ==
    [dir |-> dir, hash |-> hash_bundle_database(ddb[dir]), bundles |-> {},
     dirty |-> FALSE]

\* Index::has_updated: self.hash != hash_bundle_database(&self.dir)
has_updated_dir(idx) == idx.hash # hash_bundle_database(ddb[idx.dir])

\* index.index_files_with_progress(..): self.dirty = true, and the scan
\* and the workers go over self.dir
index_files_with_progress(idx) ==
    [idx EXCEPT !.dirty = TRUE, !.bundles = dfiles[idx.dir]]

\* load_index(dir, index_file, ..): loaded is what load_reader(index_file)
\* gave, <<>> for Err or for no index file
load_index(dir, loaded) ==
    IF loaded # <<>>
    THEN IF ~has_updated_dir(loaded[1]) THEN loaded[1]
         ELSE index_files_with_progress(loaded[1])
    ELSE index_files_with_progress(NewIndexOf(dir))

DirInit ==
    /\ ddb \in [Dirs -> {1, 2}]
    /\ dfiles \in [Dirs -> SUBSET BundleIds]
    /\ dcache = <<>> /\ dasked = "none" /\ dindex = <<>> /\ dop = "idle"

\* between runs: bundle_database.data of a directory is rewritten and its
\* bundles change
EditDir(dir, d, bs) ==
    /\ dop = "idle"
    /\ d # ddb[dir]
    /\ ddb' = [ddb EXCEPT ![dir] = d]
    /\ dfiles' = [dfiles EXCEPT ![dir] = bs]
    /\ UNCHANGED <<dcache, dasked, dindex, dop, notDirVars>>

\* main: reader::load_index(&dir, index_path, ..); --force passes no
\* index file
LoadIndex(dir, force) ==
    /\ dop = "idle"
    /\ dasked' = dir
    /\ dindex' = <<load_index(dir, IF force THEN <<>> ELSE dcache)>>
    /\ dop' = "loaded"
    /\ UNCHANGED <<ddb, dfiles, dcache, notDirVars>>

\* main: if index.dirty() && !no_save { save_reader(..) }; dirty is not
\* written to the file
ExitDir(no_save) ==
    /\ dop = "loaded"
    /\ dcache' = IF dindex[1].dirty /\ ~no_save
                 THEN <<[dindex[1] EXCEPT !.dirty = FALSE]>>
                 ELSE dcache
    /\ dindex' = <<>>
    /\ dop' = "idle"
    /\ UNCHANGED <<ddb, dfiles, dasked, notDirVars>>

DirNext ==
    \/ \E dir \in Dirs, d \in {1, 2}, bs \in SUBSET BundleIds : EditDir(dir, d, bs)
    \/ \E dir \in Dirs, force \in BOOLEAN : LoadIndex(dir, force)
    \/ \E no_save \in BOOLEAN : ExitDir(no_save)

InitDir ==
    /\ DirInit /\ ReaderIdle /\ BundleIdle /\ LoadIdle /\ CacheIdle
    /\ NameIdle /\ IndexIdle /\ StreamIdle /\ ExtractIdle /\ FileIdle /\ ProgIdle /\ GroupIdle

SpecDir == InitDir /\ [][DirNext]_vars

\* C33: the Index load_index returns is that of the directory it was
\* called with, whatever directory the index file was written for
C33_IndexOfAskedDir ==
    dop = "loaded" => dindex[1].dir = dasked

\* ------------------------------------------------------------------------
\* The progress channel: index_files_with_progress and
\* extract_files_with_progress with their workers, and load_bar
\* (core/reader/mod.rs); a bundle of an extraction holds one matched file
\* ------------------------------------------------------------------------
\* the most bundles a run works on
MaxItems == 2

Size(n) == [kind |-> "Size", read |-> 0, count |-> n]
Progress(bytes, n) == [kind |-> "Progress", read |-> bytes, count |-> n]
End == [kind |-> "End", read |-> 0, count |-> 0]

ProgInit ==
    /\ prun \in {"index", "extract"}
    /\ pleft \in 0..MaxItems
    /\ pchan = <<>> /\ prx = TRUE /\ pcount = 0
    /\ pwork = [w \in IndexWorkers |-> [pc |-> "pop", read |-> 0, count |-> 0]]
    /\ pmain = "start"
    /\ pbar = [total_read |-> 0, total_count |-> 0, total_size |-> <<>>, pc |-> "recv"]
    /\ psent = [items |-> 0, read |-> 0, count |-> 0]

\* send.send(event).unwrap(): Err, and the panic, when the receiver is gone
Sent(event) ==
    IF prx THEN pchan' = Append(pchan, event) ELSE pchan' = pchan

\* index_files_mt and extract_files_mt with nothing to do: index returns,
\* extract sends End and returns
NothingToDo ==
    /\ pmain = "start" /\ pleft = 0
    /\ IF prun = "extract" THEN Sent(End) ELSE pchan' = pchan
    /\ pmain' = IF prun = "extract" /\ ~prx THEN "panic" ELSE "returned"
    /\ UNCHANGED <<prun, pleft, prx, pcount, pwork, pbar, psent, notProgVars>>

\* reader.open_bundles(..) and the workers are spawned
SpawnWorkers ==
    /\ pmain = "start" /\ pleft > 0
    /\ pmain' = "spawned"
    /\ UNCHANGED <<prun, pleft, pchan, prx, pcount, pwork, pbar, psent, notProgVars>>

\* send.send(IndexEvent::Size(..)).unwrap()
SendSize ==
    /\ pmain = "spawned"
    /\ Sent(Size(pleft + psent.items + Cardinality({w \in IndexWorkers : pwork[w].pc = "send"})))
    /\ pmain' = IF prx THEN "sized" ELSE "panic"
    /\ UNCHANGED <<prun, pleft, prx, pcount, pwork, pbar, psent, notProgVars>>

\* a worker: reader.pop() returns a bundle, it is read, and
\* count.fetch_add(..) gives the worker its cumulative count
WorkerCount(w) ==
    /\ pmain \in {"spawned", "sized"}
    /\ pwork[w].pc = "pop" /\ pleft > 0
    /\ pleft' = pleft - 1
    /\ pcount' = pcount + 1
    /\ pwork' = [pwork EXCEPT ![w] = [pc |-> "send", read |-> pleft, count |-> 1 + pcount]]
    /\ UNCHANGED <<prun, pchan, prx, pmain, pbar, psent, notProgVars>>

\* the worker: send.send(IndexEvent::Progress { read, count }).unwrap()
WorkerSend(w) ==
    /\ pmain \in {"spawned", "sized"}
    /\ pwork[w].pc = "send"
    /\ Sent(Progress(pwork[w].read, pwork[w].count))
    /\ pwork' = [pwork EXCEPT ![w].pc = IF prx THEN "pop" ELSE "panic"]
    /\ psent' = [items |-> psent.items + 1, read |-> psent.read + pwork[w].read,
                 count |-> Max2(psent.count, pwork[w].count)]
    /\ UNCHANGED <<prun, pleft, prx, pcount, pmain, pbar, notProgVars>>

\* for thread in threads { thread.join().unwrap(); }: every pop returned None
JoinWorkers ==
    /\ pmain = "sized" /\ pleft = 0
    /\ \A w \in IndexWorkers : pwork[w].pc = "pop"
    /\ pmain' = "returned"
    /\ UNCHANGED <<prun, pleft, pchan, prx, pcount, pwork, pbar, psent, notProgVars>>

\* tx.send(IndexEvent::End).unwrap() behind the call of the _mt function
SendEnd ==
    /\ pmain = "returned"
    /\ Sent(End)
    /\ pmain' = IF prx THEN "ended" ELSE "panic"
    /\ UNCHANGED <<prun, pleft, prx, pcount, pwork, pbar, psent, notProgVars>>

\* load_bar: rx.recv_timeout(..) returns an event
BarRecv ==
    /\ pbar.pc = "recv" /\ pchan # <<>>
    /\ pchan' = Tail(pchan)
    /\ pbar' = CASE Head(pchan).kind = "Size" ->
                       [pbar EXCEPT !.total_size = <<Head(pchan).count>>]
                  [] Head(pchan).kind = "Progress" ->
                       [pbar EXCEPT !.total_read = @ + Head(pchan).read,
                                    !.total_count = Head(pchan).count]
                  [] OTHER -> [pbar EXCEPT !.pc = "done"]
    /\ UNCHANGED <<prun, pleft, prx, pcount, pwork, pmain, psent, notProgVars>>

\* load_bar returns behind its last line and sleep; rx is dropped
BarReturn ==
    /\ pbar.pc = "done"
    /\ pbar' = [pbar EXCEPT !.pc = "returned"]
    /\ prx' = FALSE
    /\ UNCHANGED <<prun, pleft, pchan, pcount, pwork, pmain, psent, notProgVars>>

\* t.join().unwrap()?
JoinBar ==
    /\ pmain = "ended" /\ pbar.pc = "returned"
    /\ pmain' = "joined"
    /\ UNCHANGED <<prun, pleft, pchan, prx, pcount, pwork, pbar, psent, notProgVars>>

ProgNext ==
    \/ NothingToDo
    \/ SpawnWorkers
    \/ SendSize
    \/ \E w \in IndexWorkers : WorkerCount(w)
    \/ \E w \in IndexWorkers : WorkerSend(w)
    \/ JoinWorkers
    \/ SendEnd
    \/ BarRecv
    \/ BarReturn
    \/ JoinBar

InitProg ==
    /\ ProgInit /\ ReaderIdle /\ BundleIdle /\ LoadIdle /\ CacheIdle /\ NameIdle
    /\ IndexIdle /\ StreamIdle /\ ExtractIdle /\ FileIdle /\ DirIdle /\ GroupIdle

SpecProg == InitProg /\ [][ProgNext]_vars

\* C35: no send on the progress channel comes after load_bar has dropped
\* the receiver, so that no unwrap of a send panics, also in an extraction
\* that matches nothing
C35_NoSendAfterDrop ==
    /\ pmain # "panic"
    /\ \A w \in IndexWorkers : pwork[w].pc # "panic"

\* C36: when load_bar has received End, its count is the number of bundles
\* the workers worked on, the largest cumulative count they sent, and its
\* bytes are the sum of the bytes they reported
C36_CountIsLargestSent ==
    pbar.pc \in {"done", "returned"} =>
        /\ pbar.total_count = psent.count
        /\ pbar.total_count = psent.items
        /\ pbar.total_read = psent.read

\* C38: for the non-empty list of bundles the callers hand to open_bundles,
\* the count is published before a sub-worker of the enumerator has
\* started, and under fair scheduling the wait of Reader::num_files ends
C38_NumFilesReturns ==
    /\ []((\E w \in Threads : subpc[w] # "idle") => num_files = nbundles)
    /\ (mainpc = "size") ~> (mainpc # "size")

\* C38 witness: the caller has its count while no sub-worker has queued a
\* bundle yet
C38_Witness ==
    /\ mainpc = "join" /\ num_files = nbundles /\ nbundles = MaxBundles
    /\ p2pc = "join" /\ files = <<>> /\ delivered = <<>>
    /\ \A w \in Subs : subidx[w] = SliceStart(w)

\* ------------------------------------------------------------------------
\* extract_files_mt from the filtered scan to the join of its workers
\* (core/reader/mod.rs): the descriptors of the scan against the matched
\* versions
\* ------------------------------------------------------------------------
\* the directories load_index has built an Index of: index_files_mt opens
\* the file format_bundle names for every descriptor of its scan
Indexable(dir) ==
    /\ dir # {}
    /\ \A n \in dir : format_bundle(get_bundle_hash_patch(n)[1],
                                     get_bundle_hash_patch(n)[2]) \in dir

\* the versions of the registry of such a directory
VersionsOf(dir) == {get_bundle_hash_patch(n) : n \in dir}

\* scan_dir_filter(dir, |(bundle, patch, _)| filter.contains(..)): one
\* (hash, patch) for every entry of the directory that passes the filter
RECURSIVE scan_dir_filter(_, _)
scan_dir_filter(dir, filter) ==
    IF dir = {} THEN <<>>
    ELSE LET n == CHOOSE x \in dir : TRUE
             rest == scan_dir_filter(dir \ {n}, filter)
         IN  IF get_bundle_hash_patch(n) \in filter
             THEN Append(rest, get_bundle_hash_patch(n))
             ELSE rest

GroupInit ==
    /\ gdir \in {dir \in SUBSET DirNames : Indexable(dir)}
    /\ ggroups = {} /\ gqueue = <<>> /\ gtaken = 0 /\ gpc = "start"

\* the pattern matches files of the versions matched: bundles is empty and
\* the call returns, or the scan is filtered by them, files is empty and
\* the call returns, or open_bundles is called and the workers spawned
MatchAndScan(matched) ==
    /\ gpc = "start"
    /\ ggroups' = matched
    /\ gqueue' = IF matched = {} THEN <<>> ELSE scan_dir_filter(gdir, matched)
    /\ gpc' = IF matched = {} \/ scan_dir_filter(gdir, matched) = <<>>
              THEN "returned" ELSE "workers"
    /\ UNCHANGED <<gdir, gtaken, notGroupVars>>

\* a worker: reader.pop() returns descriptor i of the queue, and under the
\* lock binary_search_by finds its group and removes it, or panics with
\* "missing data"
TakeGroup(i) ==
    /\ gpc = "workers"
    /\ i \in 1..Len(gqueue)
    /\ gqueue' = RemoveAt(gqueue, i)
    /\ gtaken' = gtaken + 1
    /\ IF gqueue[i] \in ggroups
       THEN ggroups' = ggroups \ {gqueue[i]} /\ gpc' = gpc
       ELSE ggroups' = ggroups /\ gpc' = "panic"
    /\ UNCHANGED <<gdir, notGroupVars>>

\* every pop returned None and the workers are joined
GroupJoin ==
    /\ gpc = "workers" /\ gqueue = <<>>
    /\ gpc' = "returned"
    /\ UNCHANGED <<gdir, ggroups, gqueue, gtaken, notGroupVars>>

GroupNext ==
    \/ \E matched \in SUBSET VersionsOf(gdir) : MatchAndScan(matched)
    \/ \E i \in 1..Cardinality(DirNames) : TakeGroup(i)
    \/ GroupJoin

InitGroup ==
    /\ GroupInit /\ ReaderIdle /\ BundleIdle /\ LoadIdle /\ CacheIdle /\ NameIdle
    /\ IndexIdle /\ StreamIdle /\ ExtractIdle /\ FileIdle /\ DirIdle /\ ProgIdle

SpecGroup == InitGroup /\ [][GroupNext]_vars

\* C39: in an extraction no worker panics with "missing data", and when
\* extract_files_mt has returned no matched version is left with its files
\* not extracted
C39_EveryDescriptorHasGroup ==
    /\ gpc # "panic"
    /\ gpc = "returned" => ggroups = {}

====
